---- MODULE Spec2Model ----
(***************************************************************************)
(* A model of pymetrics' in-memory DefaultMetricsRecorder                  *)
(* (src/pymetrics/recorders/default.py), of the instruments it holds       *)
(* (src/pymetrics/instruments.py), of publish_metrics                      *)
(* (src/pymetrics/publishers/utils.py) and of the StatsdPublisher          *)
(* (src/pymetrics/publishers/statsd.py).                                   *)
(*                                                                         *)
(* Python dicts are modelled as insertion-ordered sequences of             *)
(* [key, val] entries, instrument objects as records carrying an identity  *)
(* `id`, names as tuples of dot-joined parts and tag mappings as sets of   *)
(* <<key, value>> pairs.  Instruments are mutated through references the   *)
(* caller holds; only the instruments the recorder still holds are kept in *)
(* the state, since the others can no longer influence the recorder.       *)
(***************************************************************************)
EXTENDS Integers, Sequences, FiniteSets, TLC

VARIABLES
    prefix,                     \* self.prefix ("" stands for None)
    configuration,              \* self._configuration
    counters,                   \* self.counters   : key -> Counter
    gauges,                     \* self.gauges     : key -> list of Gauge
    histograms,                 \* self.histograms : key -> list of Histogram
    timers,                     \* self.timers     : key -> list of Timer
    unpublished_metrics_count,  \* self.unpublished_metrics_count
    last_publish_timestamp,     \* self._last_publish_timestamp
    now,                        \* what time.time() returns
    next_id,                    \* identity of the next object constructed
    dispatched,                 \* batches handed to publish_metrics by the last call
    publish_all_calls,          \* number of times the last call ran publish_all
    call,                       \* the last call: its name and its arguments
    ret,                        \* identity of the instrument the last call returned
    throttled_at,               \* per delay, when throttled_publish_all(delay) last ran publish_all
    raised,                     \* the exception the last call raised, NoError if it returned
    published,                  \* Publisher.publish calls made by the last publish_metrics call
    sent,                       \* sock.sendall attempts made by the last StatsdPublisher.publish call
    maximum_packet_size,        \* StatsdPublisher.maximum_packet_size
    publisher,                  \* the other fields of the StatsdPublisher or DogStatsdPublisher
    scopes                      \* the `with` blocks and wrapped callables being run, innermost last

vars == <<prefix, configuration, counters, gauges, histograms, timers,
          unpublished_metrics_count, last_publish_timestamp, now, next_id,
          dispatched, publish_all_calls, call, ret, throttled_at,
          raised, published, sent, maximum_packet_size, publisher, scopes>>

recorder == <<prefix, configuration, counters, gauges, histograms, timers,
              unpublished_metrics_count, last_publish_timestamp>>

----------------------------------------------------------------------------
(* Bounds of the exploration *)

\* instrument objects a behaviour may construct
MaxIds == 3
\* clock ticks a behaviour may take
MaxTicks == 1
\* largest magnitude a counter may reach
MaxIncrements == 3
\* blocks and wrapped callables a behaviour may be inside of at one moment
MaxDepth == 1

\* time.time() at construction: seconds since the epoch, far above any age
StartTime == 5
EndTime == StartTime + MaxTicks

\* Python's None, and a value v where None can stand too: Optional[...] values are
\* kept apart from the integers and from the lists they hold
None == <<>>
Some(v) == <<v>>
\* the value of an Optional that is not None
The(o) == o[1]
\* no exception
NoError == ""

\* StatsdPublisher.MAXIMUM_PACKET_SIZE
MAXIMUM_PACKET_SIZE == 65000

\* StatsdPublisher.__init__: the type labels of histograms and timers; a StatsdPublisher
\* has no tag strings
StatsdPublisher ==
    [class |-> "statsd", global_tags_string |-> <<>>, global_gauge_tags_string |-> <<>>,
     metric_type_histogram |-> "ms", metric_type_timer |-> "ms"]

Names == {"requests"}
Prefixes == {"", "svc"}
\* the value of a tag (instruments.Tag): a string, an integer or None; floats and
\* booleans are left out
Str(s) == <<"str", s>>
Integer(n) == <<"int", n>>
NoValue == <<"None">>

\* tag mappings passed as **tags to counter, gauge and histogram: the items of the
\* dict, in the order of the keyword arguments
TagSets ==
    { <<>>, << <<"env", Str("qa")>> >>, << <<"resolution", Str("ms")>> >>,
      << <<"a", Integer(0 - 1)>> >>, << <<"a", Integer(0 - 2)>> >> }
\* tag mappings whose only tag is an integer
IntegerTagSets == { <<>>, << <<"a", Integer(0 - 1)>> >>, << <<"a", Integer(0 - 2)>> >> }
\* tag mappings of two tags, in either order of the keyword arguments
OrderedTagSets ==
    { << <<"env", Str("qa")>>, <<"a", Integer(0 - 1)>> >>,
      << <<"a", Integer(0 - 1)>>, <<"env", Str("qa")>> >> }
\* tag mappings with no tag called 'resolution'
PlainTagSets == { <<>>, << <<"env", Str("qa")>> >> }
Resolutions == {"ms", "us"}
InitialValues == {0}
SetValues == {Some(0), Some(2)}
\* amounts given to Counter.increment and values given to Counter.reset
Amounts == {0 - 1, 0, 1, 2}
ResetValues == {None, Some(0 - 2), Some(0), Some(2)}
\* initial values given to counters and timers
CounterInitialValues == {0, 1}
TimerInitialValues == {0, 3}
MaxMetricsArgs == {1, 2}
AgeArgs == {1, 2}
DelayArgs == {1, 2}

----------------------------------------------------------------------------
(* Instruments: src/pymetrics/instruments.py *)

\* TimerResolution
ResolutionFactor(r) ==
    CASE r = "ms" -> 1000
      [] r = "us" -> 1000000
      [] r = "ns" -> 1000000000

\* Metric.__init__, Counter.__init__, Gauge.__init__ (no timer fields)
NewMetric(id, kind, name, initial_value, tags) ==
    [id |-> id, kind |-> kind, name |-> name, tags |-> tags,
     initial_value |-> initial_value, value |-> initial_value,
     start_time |-> None, running_value |-> 0, resolution |-> "ms"]

\* Timer.__init__: the resolution is taken out of the keyword arguments and the timer starts
NewTimer(id, name, initial_value, resolution, tags, t) ==
    [id |-> id, kind |-> "timer", name |-> name, tags |-> tags,
     initial_value |-> initial_value, value |-> initial_value,
     start_time |-> Some(t), running_value |-> 0, resolution |-> resolution]

\* `not self._start_time`
NotStarted(m) == m.start_time = None \/ m.start_time = Some(0)

\* a value that applies the resolution to the set or initial value too
TimerValue_MultipliesValue(m) ==
    IF m.running_value > 0 /\ NotStarted(m)
    THEN Some(m.running_value * ResolutionFactor(m.resolution))
    ELSE IF m.value # 0 THEN Some(m.value * ResolutionFactor(m.resolution)) ELSE None

\* a value that prefers the set or initial value to the accumulated time
TimerValue_ValueFirst(m) ==
    IF m.value # 0 THEN Some(m.value)
    ELSE IF m.running_value > 0 /\ NotStarted(m)
         THEN Some(m.running_value * ResolutionFactor(m.resolution))
         ELSE None

\* Timer.value
TimerValue(m) ==
    IF m.running_value > 0 /\ NotStarted(m)
    THEN Some(m.running_value * ResolutionFactor(m.resolution))
    ELSE IF m.value # 0 THEN Some(m.value) ELSE None

\* Metric.value / Counter.value / Timer.value
Value(m) == IF m.kind = "timer" THEN TimerValue(m) ELSE Some(m.value)

\* an increment that ignores the amount it is given
Increment_ByOne(m, amount) == [m EXCEPT !.value = @ + 1]

\* Counter.increment
Increment(m, amount) == [m EXCEPT !.value = @ + amount]

\* Counter.reset: <<the counter afterwards, the exception raised>>
Reset(m, value) ==
    IF value = None
    THEN <<[m EXCEPT !.value = m.initial_value], NoError>>
    ELSE IF The(value) < 0
         THEN <<m, "ValueError">>
         ELSE <<[m EXCEPT !.value = The(value)], NoError>>

\* Histogram.set / Gauge.set: <<the instrument afterwards, the exception raised>>
Set(m, value) ==
    IF value = None
    THEN <<[m EXCEPT !.value = m.initial_value], NoError>>
    ELSE IF The(value) < 0
         THEN <<m, "ValueError">>
         ELSE <<[m EXCEPT !.value = The(value)], NoError>>

\* what Histogram.set and Gauge.set return
SetResult(m) == IF Value(m) # None THEN Value(m) ELSE Some(0)

\* a start that leaves a running timer alone
Start_KeepsEarlier(m, t) == IF m.start_time # None THEN m ELSE [m EXCEPT !.start_time = Some(t)]

\* Timer.start
Start(m, t) == [m EXCEPT !.start_time = Some(t)]

\* a stop that does not look whether the timer runs, and counts from 0 when it does not
Stop_Unguarded(m, t) ==
    [m EXCEPT !.running_value = @ + (t - (IF m.start_time = None THEN 0 ELSE The(m.start_time))),
              !.start_time = None]

\* Timer.stop
Stop(m, t) ==
    IF m.start_time = None
    THEN m
    ELSE [m EXCEPT !.running_value = @ + (t - The(m.start_time)), !.start_time = None]

----------------------------------------------------------------------------
(* Insertion-ordered dicts *)

Keys(d) == {d[i].key : i \in DOMAIN d}
IndexOf(d, k) == CHOOSE i \in DOMAIN d : d[i].key = k
Lookup(d, k) == d[IndexOf(d, k)].val
Last(s) == s[Len(s)]

RECURSIVE SumLen(_)
\* number of instruments held by a dict of lists
SumLen(d) == IF d = <<>> THEN 0 ELSE Len(Head(d).val) + SumLen(Tail(d))

RECURSIVE Flatten(_)
\* the instruments of a dict of lists, in iteration order
Flatten(d) == IF d = <<>> THEN <<>> ELSE Head(d).val \o Flatten(Tail(d))

\* the instruments of the counters dict, in iteration order
Values(d) == [i \in DOMAIN d |-> d[i].val]

----------------------------------------------------------------------------
(* The recorder: src/pymetrics/recorders/default.py *)

\* hash() of one (key, value) item of a tag mapping, a tuple: made of the hashes of
\* the key and of the value.  The hash of a string changes from one process to the
\* next and the string stands for it; the hash of an integer (below 2^61 - 1 in
\* magnitude) is the integer, but for -1, whose hash is -2
ItemHash(p) ==
    LET value == p[2]
    IN  IF value # NoValue /\ value[1] = "int"
        THEN <<p[1], Integer(IF value[2] = 0 - 1 THEN 0 - 2 ELSE value[2])>>
        ELSE p

\* hash(frozenset(items)): the hashes of the items, combined whatever their order
Hash(items) == {ItemHash(p) : p \in items}

\* DefaultMetricsRecorder.is_configured
is_configured == configuration.configured

\* DefaultMetricsRecorder._get_name: <<name, internal_name>>
GetName(name, other_concerns) ==
    LET full == IF prefix # "" THEN <<prefix, name>> ELSE <<name>>
        items == {other_concerns[i] : i \in DOMAIN other_concerns}
        has_resolution == \E p \in items : p[1] = "resolution"
        suffix == IF other_concerns # <<>> /\ (~has_resolution \/ Len(other_concerns) > 1)
                  THEN <<Hash({p \in items : p[1] # "resolution"})>>
                  ELSE <<>>
    IN  <<full, [name |-> full, suffix |-> suffix]>>

\* a lookup that appends only on force_new, whatever the value of the latest instrument
GetMetricFromListOrCreate_IgnoresValue(collection, name, force_new, kind, initial_value, resolution, tags) ==
    LET kwargs == IF kind = "timer" THEN << <<"resolution", resolution>> >> \o tags ELSE tags
        names == GetName(name, kwargs)
        internal_name == names[2]
        metric == IF kind = "timer"
                  THEN NewTimer(next_id, names[1], initial_value, resolution, tags, now)
                  ELSE NewMetric(next_id, kind, names[1], initial_value, tags)
    IN  IF internal_name \notin Keys(collection)
        THEN [collection |-> Append(collection, [key |-> internal_name, val |-> <<metric>>]),
              created |-> 1, ret |-> metric]
        ELSE IF force_new
        THEN [collection |-> [collection EXCEPT ![IndexOf(collection, internal_name)].val = Append(@, metric)],
              created |-> 1, ret |-> metric]
        ELSE [collection |-> collection, created |-> 0,
              ret |-> Last(Lookup(collection, internal_name))]

\* DefaultMetricsRecorder._get_metric_from_list_or_create, as the new collection,
\* the number of instruments created and the instrument returned
GetMetricFromListOrCreate(collection, name, force_new, kind, initial_value, resolution, tags) ==
    LET kwargs == IF kind = "timer" THEN << <<"resolution", resolution>> >> \o tags ELSE tags
        names == GetName(name, kwargs)
        internal_name == names[2]
        metric == IF kind = "timer"
                  THEN NewTimer(next_id, names[1], initial_value, resolution, tags, now)
                  ELSE NewMetric(next_id, kind, names[1], initial_value, tags)
    IN  IF internal_name \notin Keys(collection)
        THEN [collection |-> Append(collection, [key |-> internal_name, val |-> <<metric>>]),
              created |-> 1, ret |-> metric]
        ELSE IF force_new \/ Value(Last(Lookup(collection, internal_name))) # None
        THEN [collection |-> [collection EXCEPT ![IndexOf(collection, internal_name)].val = Append(@, metric)],
              created |-> 1, ret |-> metric]
        ELSE [collection |-> collection, created |-> 0,
              ret |-> Last(Lookup(collection, internal_name))]

\* a clearing that counts the lists that remain, not the instruments in them
GetMetricDictClearedOfPublishedMetrics_CountsLists(original) ==
    LET kept == [i \in DOMAIN original |->
                    [key |-> original[i].key,
                     val |-> SelectSeq(original[i].val, LAMBDA m : Value(m) = None)]]
        new == SelectSeq(kept, LAMBDA e : e.val # <<>>)
    IN  <<new, Len(new)>>

\* DefaultMetricsRecorder._get_metric_dict_cleared_of_published_metrics: <<new, remaining>>
GetMetricDictClearedOfPublishedMetrics(original) ==
    LET kept == [i \in DOMAIN original |->
                    [key |-> original[i].key,
                     val |-> SelectSeq(original[i].val, LAMBDA m : Value(m) = None)]]
        new == SelectSeq(kept, LAMBDA e : e.val # <<>>)
    IN  <<new, SumLen(new)>>

\* the timer get_all_metrics prepends when meta-metrics are enabled, stopped after `elapsed`
MetaTimer(elapsed) ==
    Stop(NewTimer(0, <<"pymetrics", "meta", "recorder", "get_all_metrics">>, 0, "us", <<>>, now),
         now + elapsed)

\* a get_all_metrics that does not leave out the timers without a value
GetAllMetrics_AllTimers(elapsed) ==
    LET metrics == Values(counters)
                   \o SelectSeq(Flatten(gauges), LAMBDA m : Value(m) # None)
                   \o SelectSeq(Flatten(histograms), LAMBDA m : Value(m) # None)
                   \o Flatten(timers)
    IN  IF is_configured /\ configuration.enable_meta_metrics
        THEN <<MetaTimer(elapsed)>> \o metrics
        ELSE metrics

\* DefaultMetricsRecorder.get_all_metrics, the call taking `elapsed` on the clock
GetAllMetrics(elapsed) ==
    LET metrics == Values(counters)
                   \o SelectSeq(Flatten(gauges), LAMBDA m : Value(m) # None)
                   \o SelectSeq(Flatten(histograms), LAMBDA m : Value(m) # None)
                   \o SelectSeq(Flatten(timers), LAMBDA m : Value(m) # None)
    IN  IF is_configured /\ configuration.enable_meta_metrics
        THEN <<MetaTimer(elapsed)>> \o metrics
        ELSE metrics

\* DefaultMetricsRecorder.__init__, before anything is known of the configuration
InitRecorder ==
    /\ prefix \in Prefixes
    /\ counters = <<>>
    /\ gauges = <<>>
    /\ histograms = <<>>
    /\ timers = <<>>
    /\ unpublished_metrics_count = 0
    /\ last_publish_timestamp = 0
    /\ now = StartTime
    /\ next_id = 1
    /\ dispatched = <<>>
    /\ publish_all_calls = 0
    /\ call = [op |-> "__init__", args |-> <<>>]
    /\ ret = None
    /\ throttled_at = [d \in DelayArgs |-> None]
    /\ raised = NoError
    /\ published = <<>>
    /\ sent = <<>>
    /\ scopes = <<>>

\* Configuration.__init__; an unconfigured recorder holds None
Configuration(configured, enable_meta_metrics, error_logger_name, publishers) ==
    [configured |-> configured, enable_meta_metrics |-> enable_meta_metrics,
     error_logger_name |-> error_logger_name, publishers |-> publishers]

\* a recorder without configuration, or with one that names one publisher and no error
\* logger (create_configuration accepts no configuration without a publisher)
Init ==
    /\ InitRecorder
    /\ configuration \in {Configuration(FALSE, FALSE, "", <<>>),
                          Configuration(TRUE, FALSE, "", <<1>>),
                          Configuration(TRUE, TRUE, "", <<1>>)}
    /\ maximum_packet_size = MAXIMUM_PACKET_SIZE
    /\ publisher = StatsdPublisher

\* a call that returns normally and reaches no publisher
Quiet ==
    /\ raised' = NoError
    /\ published' = <<>>
    /\ sent' = <<>>
    /\ UNCHANGED <<maximum_packet_size, publisher>>

\* time passes between two calls
Tick ==
    /\ now < EndTime
    /\ now' = now + 1
    /\ UNCHANGED scopes
    /\ call' = [op |-> "tick", args |-> <<>>]
    /\ Quiet
    /\ ret' = None
    /\ UNCHANGED throttled_at
    /\ dispatched' = <<>>
    /\ publish_all_calls' = 0
    /\ UNCHANGED <<recorder, next_id>>

\* DefaultMetricsRecorder.counter
Counter(name, initial_value, tags) ==
    LET names == GetName(name, tags)
        internal_name == names[2]
        present == internal_name \in Keys(counters)
    IN  /\ present \/ next_id <= MaxIds
        /\ counters' = IF present THEN counters
                       ELSE Append(counters,
                                   [key |-> internal_name,
                                    val |-> NewMetric(next_id, "counter", names[1], initial_value, tags)])
        /\ unpublished_metrics_count' = IF present THEN unpublished_metrics_count
                                        ELSE unpublished_metrics_count + 1
        /\ next_id' = IF present THEN next_id ELSE next_id + 1
        /\ UNCHANGED scopes
        /\ call' = [op |-> "counter", args |-> <<name, initial_value, tags>>]
        /\ Quiet
        /\ ret' = Some(Lookup(counters', internal_name).id)
        /\ UNCHANGED throttled_at
        /\ dispatched' = <<>>
        /\ publish_all_calls' = 0
        /\ UNCHANGED <<prefix, configuration, gauges, histograms, timers,
                       last_publish_timestamp, now>>

\* DefaultMetricsRecorder.histogram
Histogram(name, force_new, initial_value, tags) ==
    LET r == GetMetricFromListOrCreate(histograms, name, force_new, "histogram", initial_value, "ms", tags)
    IN  /\ r.created = 0 \/ next_id <= MaxIds
        /\ histograms' = r.collection
        /\ unpublished_metrics_count' = unpublished_metrics_count + r.created
        /\ next_id' = next_id + r.created
        /\ UNCHANGED scopes
        /\ call' = [op |-> "histogram", args |-> <<name, force_new, initial_value, tags>>]
        /\ Quiet
        /\ ret' = Some(r.ret.id)
        /\ UNCHANGED throttled_at
        /\ dispatched' = <<>>
        /\ publish_all_calls' = 0
        /\ UNCHANGED <<prefix, configuration, counters, gauges, timers,
                       last_publish_timestamp, now>>

\* DefaultMetricsRecorder.timer
Timer(name, force_new, resolution, initial_value, tags) ==
    LET r == GetMetricFromListOrCreate(timers, name, force_new, "timer", initial_value, resolution, tags)
    IN  /\ r.created = 0 \/ next_id <= MaxIds
        /\ timers' = r.collection
        /\ unpublished_metrics_count' = unpublished_metrics_count + r.created
        /\ next_id' = next_id + r.created
        /\ UNCHANGED scopes
        /\ call' = [op |-> "timer", args |-> <<name, force_new, resolution, initial_value, tags>>]
        /\ Quiet
        /\ ret' = Some(r.ret.id)
        /\ UNCHANGED throttled_at
        /\ dispatched' = <<>>
        /\ publish_all_calls' = 0
        /\ UNCHANGED <<prefix, configuration, counters, gauges, histograms,
                       last_publish_timestamp, now>>

\* DefaultMetricsRecorder.gauge
Gauge(name, force_new, initial_value, tags) ==
    LET r == GetMetricFromListOrCreate(gauges, name, force_new, "gauge", initial_value, "ms", tags)
    IN  /\ r.created = 0 \/ next_id <= MaxIds
        /\ gauges' = r.collection
        /\ unpublished_metrics_count' = unpublished_metrics_count + r.created
        /\ next_id' = next_id + r.created
        /\ UNCHANGED scopes
        /\ call' = [op |-> "gauge", args |-> <<name, force_new, initial_value, tags>>]
        /\ Quiet
        /\ ret' = Some(r.ret.id)
        /\ UNCHANGED throttled_at
        /\ dispatched' = <<>>
        /\ publish_all_calls' = 0
        /\ UNCHANGED <<prefix, configuration, counters, histograms, timers,
                       last_publish_timestamp, now>>

----------------------------------------------------------------------------
(* Calls on the instruments the recorder holds, through references kept by the caller *)

\* Counter.increment on the i-th counter
CounterIncrement(i, amount) ==
    /\ i \in DOMAIN counters
    /\ counters[i].val.value + amount \in (0 - MaxIncrements)..MaxIncrements
    /\ counters' = [counters EXCEPT ![i].val = Increment(@, amount)]
    /\ UNCHANGED scopes
    /\ call' = [op |-> "increment", args |-> <<amount>>]
    /\ Quiet
    /\ ret' = Value(counters'[i].val)
    /\ UNCHANGED throttled_at
    /\ dispatched' = <<>>
    /\ publish_all_calls' = 0
    /\ UNCHANGED <<prefix, configuration, gauges, histograms, timers,
                   unpublished_metrics_count, last_publish_timestamp, now, next_id>>

\* Counter.reset on the i-th counter
CounterReset(i, value) ==
    LET r == Reset(counters[i].val, value)
    IN  /\ i \in DOMAIN counters
        /\ counters' = [counters EXCEPT ![i].val = r[1]]
        /\ UNCHANGED scopes
        /\ call' = [op |-> "reset", args |-> <<value>>]
        /\ raised' = r[2]
        /\ ret' = IF r[2] = NoError THEN Value(r[1]) ELSE None
        /\ published' = <<>>
        /\ sent' = <<>>
        /\ UNCHANGED <<maximum_packet_size, publisher>>
        /\ dispatched' = <<>>
        /\ publish_all_calls' = 0
        /\ UNCHANGED <<prefix, configuration, gauges, histograms, timers,
                       unpublished_metrics_count, last_publish_timestamp, now, next_id,
                       throttled_at>>

\* Gauge.set on the j-th gauge of the i-th key
GaugeSet(i, j, v) ==
    /\ i \in DOMAIN gauges
    /\ j \in DOMAIN gauges[i].val
    /\ gauges' = [gauges EXCEPT ![i].val[j] = Set(@, v)[1]]
    /\ UNCHANGED scopes
    /\ call' = [op |-> "set", args |-> <<v>>]
    /\ raised' = Set(gauges[i].val[j], v)[2]
    /\ ret' = IF raised' = NoError THEN SetResult(gauges'[i].val[j]) ELSE None
    /\ published' = <<>>
    /\ sent' = <<>>
    /\ UNCHANGED <<maximum_packet_size, publisher>>
    /\ UNCHANGED throttled_at
    /\ dispatched' = <<>>
    /\ publish_all_calls' = 0
    /\ UNCHANGED <<prefix, configuration, counters, histograms, timers,
                   unpublished_metrics_count, last_publish_timestamp, now, next_id>>

\* Histogram.set on the j-th histogram of the i-th key
HistogramSet(i, j, v) ==
    /\ i \in DOMAIN histograms
    /\ j \in DOMAIN histograms[i].val
    /\ histograms' = [histograms EXCEPT ![i].val[j] = Set(@, v)[1]]
    /\ UNCHANGED scopes
    /\ call' = [op |-> "set", args |-> <<v>>]
    /\ raised' = Set(histograms[i].val[j], v)[2]
    /\ ret' = IF raised' = NoError THEN SetResult(histograms'[i].val[j]) ELSE None
    /\ published' = <<>>
    /\ sent' = <<>>
    /\ UNCHANGED <<maximum_packet_size, publisher>>
    /\ UNCHANGED throttled_at
    /\ dispatched' = <<>>
    /\ publish_all_calls' = 0
    /\ UNCHANGED <<prefix, configuration, counters, gauges, timers,
                   unpublished_metrics_count, last_publish_timestamp, now, next_id>>

\* Timer.set (inherited from Histogram) on the j-th timer of the i-th key
TimerSet(i, j, v) ==
    /\ i \in DOMAIN timers
    /\ j \in DOMAIN timers[i].val
    /\ timers' = [timers EXCEPT ![i].val[j] = Set(@, v)[1]]
    /\ UNCHANGED scopes
    /\ call' = [op |-> "set", args |-> <<v>>]
    /\ raised' = Set(timers[i].val[j], v)[2]
    /\ ret' = IF raised' = NoError THEN SetResult(timers'[i].val[j]) ELSE None
    /\ published' = <<>>
    /\ sent' = <<>>
    /\ UNCHANGED <<maximum_packet_size, publisher>>
    /\ UNCHANGED throttled_at
    /\ dispatched' = <<>>
    /\ publish_all_calls' = 0
    /\ UNCHANGED <<prefix, configuration, counters, gauges, histograms,
                   unpublished_metrics_count, last_publish_timestamp, now, next_id>>

\* Timer.stop on the j-th timer of the i-th key
TimerStop(i, j) ==
    /\ i \in DOMAIN timers
    /\ j \in DOMAIN timers[i].val
    /\ timers' = [timers EXCEPT ![i].val[j] = Stop(@, now)]
    /\ UNCHANGED scopes
    /\ call' = [op |-> "stop", args |-> <<>>]
    /\ Quiet
    /\ ret' = None
    /\ UNCHANGED throttled_at
    /\ dispatched' = <<>>
    /\ publish_all_calls' = 0
    /\ UNCHANGED <<prefix, configuration, counters, gauges, histograms,
                   unpublished_metrics_count, last_publish_timestamp, now, next_id>>

\* Timer.start on the j-th timer of the i-th key
TimerStart(i, j) ==
    /\ i \in DOMAIN timers
    /\ j \in DOMAIN timers[i].val
    /\ timers' = [timers EXCEPT ![i].val[j] = Start(@, now)]
    /\ UNCHANGED scopes
    /\ call' = [op |-> "start", args |-> <<>>]
    /\ Quiet
    /\ ret' = None
    /\ UNCHANGED throttled_at
    /\ dispatched' = <<>>
    /\ publish_all_calls' = 0
    /\ UNCHANGED <<prefix, configuration, counters, gauges, histograms,
                   unpublished_metrics_count, last_publish_timestamp, now, next_id>>

----------------------------------------------------------------------------
(* Clearing and publishing *)

\* a clear that forgets to recompute the unpublished count
ClearResult_KeepsCount(only_published) ==
    LET h == GetMetricDictClearedOfPublishedMetrics(histograms)
        t == GetMetricDictClearedOfPublishedMetrics(timers)
    IN  [counters |-> <<>>,
         histograms |-> IF only_published THEN h[1] ELSE <<>>,
         timers |-> IF only_published THEN t[1] ELSE <<>>,
         gauges |-> <<>>,
         unpublished_metrics_count |-> unpublished_metrics_count]

\* the collections and the count DefaultMetricsRecorder.clear leaves
ClearResult(only_published) ==
    LET h == GetMetricDictClearedOfPublishedMetrics(histograms)
        t == GetMetricDictClearedOfPublishedMetrics(timers)
        remaining_histograms == IF only_published THEN h[2] ELSE 0
        remaining_timers == IF only_published THEN t[2] ELSE 0
    IN  [counters |-> <<>>,
         histograms |-> IF only_published THEN h[1] ELSE <<>>,
         timers |-> IF only_published THEN t[1] ELSE <<>>,
         gauges |-> <<>>,
         unpublished_metrics_count |-> remaining_histograms + remaining_timers]

\* DefaultMetricsRecorder.clear
Clear(only_published) ==
    LET c == ClearResult(only_published)
    IN  /\ counters' = c.counters
        /\ histograms' = c.histograms
        /\ timers' = c.timers
        /\ gauges' = c.gauges
        /\ unpublished_metrics_count' = c.unpublished_metrics_count
        /\ UNCHANGED scopes
        /\ call' = [op |-> "clear", args |-> <<only_published>>]
        /\ Quiet
        /\ ret' = None
        /\ UNCHANGED throttled_at
        /\ dispatched' = <<>>
        /\ publish_all_calls' = 0
        /\ UNCHANGED <<prefix, configuration, last_publish_timestamp, now, next_id>>

\* what a publisher's publish() does when it is called
PublishOutcomes == {"ok", "raises"}

\* the smallest element of a non-empty set of integers
Minimum(S) == CHOOSE x \in S : \A y \in S : x <= y

\* a loop that goes on to the next publisher when one raises
PublisherCalls_PastRaise(metrics, outcomes) ==
    [k \in 1..Len(configuration.publishers) |->
        [publisher |-> configuration.publishers[k], metrics |-> metrics,
         error_logger |-> configuration.error_logger_name,
         enable_meta_metrics |-> configuration.enable_meta_metrics]]

\* the loop of publish_metrics: the publish() calls it makes, in order; it ends with the
\* first publisher that raises
PublisherCalls(metrics, outcomes) ==
    LET raising == {k \in 1..Len(configuration.publishers) : outcomes[k] = "raises"}
        last == IF raising = {} THEN Len(configuration.publishers) ELSE Minimum(raising)
    IN  [k \in 1..last |->
            [publisher |-> configuration.publishers[k], metrics |-> metrics,
             error_logger |-> configuration.error_logger_name,
             enable_meta_metrics |-> configuration.enable_meta_metrics]]

\* a publish_all that clears and stamps in a finally clause
AfterPublishMetrics_Finally(failed, at) ==
    LET c == ClearResult(TRUE)
    IN  [counters |-> c.counters, histograms |-> c.histograms, timers |-> c.timers,
         gauges |-> c.gauges, unpublished_metrics_count |-> c.unpublished_metrics_count,
         last_publish_timestamp |-> at]

\* what publish_all leaves in the recorder after publish_metrics: when that call raised,
\* the lines that clear and stamp the time `at` are not reached
AfterPublishMetrics(failed, at) ==
    LET c == ClearResult(TRUE)
    IN  IF failed
        THEN [counters |-> counters, histograms |-> histograms, timers |-> timers,
              gauges |-> gauges, unpublished_metrics_count |-> unpublished_metrics_count,
              last_publish_timestamp |-> last_publish_timestamp]
        ELSE [counters |-> c.counters, histograms |-> c.histograms, timers |-> c.timers,
              gauges |-> c.gauges, unpublished_metrics_count |-> c.unpublished_metrics_count,
              last_publish_timestamp |-> at]

\* a publish_all that returns at once when the recorder is not configured
DoPublishAll_ConfiguredOnly(outcomes, elapsed) ==
    LET metrics == GetAllMetrics(elapsed)
        calls == IF is_configured THEN PublisherCalls(metrics, outcomes) ELSE <<>>
        failed == \E k \in DOMAIN calls : outcomes[k] = "raises"
        after == AfterPublishMetrics(failed \/ ~is_configured, now + elapsed)
    IN  /\ now + elapsed <= EndTime
        /\ now' = now + elapsed
        /\ dispatched' = IF is_configured THEN <<metrics>> ELSE <<>>
        /\ published' = calls
        /\ raised' = IF failed THEN "Exception" ELSE NoError
        /\ counters' = after.counters
        /\ histograms' = after.histograms
        /\ timers' = after.timers
        /\ gauges' = after.gauges
        /\ unpublished_metrics_count' = after.unpublished_metrics_count
        /\ last_publish_timestamp' = after.last_publish_timestamp
        /\ publish_all_calls' = 1
        /\ UNCHANGED <<prefix, configuration, next_id>>

\* a publish_all that ends with a full clear
DoPublishAll_ClearsAll(outcomes, elapsed) ==
    LET metrics == GetAllMetrics(elapsed)
        calls == IF is_configured THEN PublisherCalls(metrics, outcomes) ELSE <<>>
        failed == \E k \in DOMAIN calls : outcomes[k] = "raises"
        after == AfterPublishMetrics(failed, now + elapsed)
        c == ClearResult(FALSE)
    IN  /\ now + elapsed <= EndTime
        /\ now' = now + elapsed
        /\ dispatched' = IF is_configured THEN <<metrics>> ELSE <<>>
        /\ published' = calls
        /\ raised' = IF failed THEN "Exception" ELSE NoError
        /\ counters' = IF failed THEN after.counters ELSE c.counters
        /\ histograms' = IF failed THEN after.histograms ELSE c.histograms
        /\ timers' = IF failed THEN after.timers ELSE c.timers
        /\ gauges' = IF failed THEN after.gauges ELSE c.gauges
        /\ unpublished_metrics_count' = IF failed THEN after.unpublished_metrics_count
                                        ELSE c.unpublished_metrics_count
        /\ last_publish_timestamp' = after.last_publish_timestamp
        /\ publish_all_calls' = 1
        /\ UNCHANGED <<prefix, configuration, next_id>>

\* the body of DefaultMetricsRecorder.publish_all: get_all_metrics takes `elapsed` on the
\* clock, publish_metrics calls the publishers of the configuration, outcomes[k] being
\* what the k-th of them does, and the clear and the timestamp follow when none raised
DoPublishAll(outcomes, elapsed) ==
    LET metrics == GetAllMetrics(elapsed)
        calls == IF is_configured THEN PublisherCalls(metrics, outcomes) ELSE <<>>
        failed == \E k \in DOMAIN calls : outcomes[k] = "raises"
        after == AfterPublishMetrics(failed, now + elapsed)
    IN  /\ now + elapsed <= EndTime
        /\ now' = now + elapsed
        /\ dispatched' = IF is_configured THEN <<metrics>> ELSE <<>>
        /\ published' = calls
        /\ raised' = IF failed THEN "Exception" ELSE NoError
        /\ counters' = after.counters
        /\ histograms' = after.histograms
        /\ timers' = after.timers
        /\ gauges' = after.gauges
        /\ unpublished_metrics_count' = after.unpublished_metrics_count
        /\ last_publish_timestamp' = after.last_publish_timestamp
        /\ publish_all_calls' = 1
        /\ UNCHANGED <<prefix, configuration, next_id>>

\* time get_all_metrics can take on the clock; it only shows in the meta timer
MetaElapsed == IF is_configured /\ configuration.enable_meta_metrics THEN {0, 1} ELSE {0}

\* DefaultMetricsRecorder.publish_all; the call is recorded with what the publishers did
PublishAll ==
    \E outcomes \in [1..Len(configuration.publishers) -> PublishOutcomes], elapsed \in MetaElapsed :
        /\ DoPublishAll(outcomes, elapsed)
        /\ UNCHANGED scopes
        /\ call' = [op |-> "publish_all", args |-> <<outcomes>>]
        /\ ret' = None
        /\ sent' = <<>>
        /\ UNCHANGED <<throttled_at, maximum_packet_size, publisher>>

\* a test that already fires when the count reaches max_metrics
IsFullOrOld_AtLeast(max_metrics, max_age) ==
    unpublished_metrics_count >= max_metrics \/ now - last_publish_timestamp >= max_age

\* the test of DefaultMetricsRecorder.publish_if_full_or_old
IsFullOrOld(max_metrics, max_age) ==
    unpublished_metrics_count > max_metrics \/ now - last_publish_timestamp >= max_age

\* DefaultMetricsRecorder.publish_if_full_or_old
PublishIfFullOrOld(max_metrics, max_age) ==
    /\ IF IsFullOrOld(max_metrics, max_age)
       THEN \E outcomes \in [1..Len(configuration.publishers) -> PublishOutcomes], elapsed \in MetaElapsed :
               DoPublishAll(outcomes, elapsed)
       ELSE /\ dispatched' = <<>>
            /\ publish_all_calls' = 0
            /\ published' = <<>>
            /\ raised' = NoError
            /\ UNCHANGED <<recorder, now, next_id>>
    /\ UNCHANGED scopes
    /\ call' = [op |-> "publish_if_full_or_old", args |-> <<max_metrics, max_age>>]
    /\ ret' = None
    /\ sent' = <<>>
    /\ UNCHANGED <<throttled_at, maximum_packet_size, publisher>>

\* the test of DefaultMetricsRecorder.throttled_publish_all
IsDue(delay) == now - last_publish_timestamp >= delay

\* DefaultMetricsRecorder.throttled_publish_all; throttled_at keeps the time at which
\* it ran publish_all, whether that call returned or raised
ThrottledPublishAll(delay) ==
    /\ IF IsDue(delay)
       THEN /\ \E outcomes \in [1..Len(configuration.publishers) -> PublishOutcomes], elapsed \in MetaElapsed :
                  DoPublishAll(outcomes, elapsed)
            /\ throttled_at' = [throttled_at EXCEPT ![delay] = Some(now')]
       ELSE /\ dispatched' = <<>>
            /\ publish_all_calls' = 0
            /\ published' = <<>>
            /\ raised' = NoError
            /\ UNCHANGED <<recorder, now, next_id, throttled_at>>
    /\ UNCHANGED scopes
    /\ call' = [op |-> "throttled_publish_all", args |-> <<delay>>]
    /\ ret' = None
    /\ sent' = <<>>
    /\ UNCHANGED <<maximum_packet_size, publisher>>

----------------------------------------------------------------------------

Indexes == 1..MaxIds

\* when to publish: the clock and the three publish operations
Next ==
    \/ Tick
    \/ \E n \in Names, v \in InitialValues : Counter(n, v, <<>>)
    \/ \E n \in Names, v \in InitialValues : Histogram(n, FALSE, v, <<>>)
    \/ PublishAll
    \/ \E m \in MaxMetricsArgs, a \in AgeArgs : PublishIfFullOrOld(m, a)
    \/ \E d \in DelayArgs : ThrottledPublishAll(d)

Spec == Init /\ [][Next]_vars

\* what is published: counters and timers over time, and publish_all
NextPublish ==
    \/ Tick
    \/ \E n \in Names, v \in InitialValues, t \in PlainTagSets : Counter(n, v, t)
    \/ \E n \in Names, v \in InitialValues : Timer(n, FALSE, "ms", v, <<>>)
    \/ \E i \in Indexes : CounterIncrement(i, 1)
    \/ \E i, j \in Indexes : TimerStop(i, j)
    \/ PublishAll

SpecPublish == Init /\ [][NextPublish]_vars

\* a configured recorder with prefix "svc"
InitConfigured == Init /\ prefix = "svc" /\ configuration.configured

\* the four kinds of instrument side by side, at one instant
NextRecorder ==
    \/ \E n \in Names, v \in InitialValues, t \in IntegerTagSets : Counter(n, v, t)
    \/ \E n \in Names, v \in InitialValues : Histogram(n, FALSE, v, <<>>)
    \/ \E n \in Names, f \in BOOLEAN, v \in InitialValues : Timer(n, f, "ms", v, <<>>)
    \/ \E n \in Names, f \in BOOLEAN, v \in InitialValues, t \in PlainTagSets : Gauge(n, f, v, t)
    \/ \E i \in Indexes : CounterIncrement(i, 1)
    \/ \E i, j \in Indexes, v \in SetValues : GaugeSet(i, j, v)
    \/ \E i, j \in Indexes, v \in SetValues : TimerSet(i, j, v)
    \/ \E o \in BOOLEAN : Clear(o)

SpecRecorder == InitConfigured /\ [][NextRecorder]_vars

\* the lists of histograms and timers over time
NextLists ==
    \/ Tick
    \/ \E n \in Names, f \in BOOLEAN, v \in InitialValues : Histogram(n, f, v, <<>>)
    \/ \E n \in Names, f \in BOOLEAN, v \in InitialValues : Timer(n, f, "ms", v, <<>>)
    \/ \E i, j \in Indexes : HistogramSet(i, j, Some(2))
    \/ \E i, j \in Indexes : TimerSet(i, j, Some(2))
    \/ \E i, j \in Indexes : TimerStop(i, j)
    \/ \E i, j \in Indexes : TimerStart(i, j)
    \/ Clear(TRUE)

\* a configured recorder with prefix "svc" and meta-metrics off
InitPlain == InitConfigured /\ ~configuration.enable_meta_metrics

SpecLists == InitPlain /\ [][NextLists]_vars

\* the four factories, clear and publish_all on a recorder, configured or not
NextCount ==
    \/ \E n \in Names, v \in InitialValues : Counter(n, v, <<>>)
    \/ \E n \in Names, f \in BOOLEAN, v \in InitialValues : Gauge(n, f, v, <<>>)
    \/ \E n \in Names, f \in BOOLEAN, v \in InitialValues : Histogram(n, f, v, <<>>)
    \/ \E n \in Names, f \in BOOLEAN, v \in InitialValues : Timer(n, f, "ms", v, <<>>)
    \/ \E i, j \in Indexes : TimerSet(i, j, Some(2))
    \/ \E o \in BOOLEAN : Clear(o)
    \/ PublishAll

\* a recorder with prefix "svc", configured or not
InitCount == Init /\ prefix = "svc"

SpecCount == InitCount /\ [][NextCount]_vars

\* the keys the four factories file instruments under
NextKeys ==
    \/ \E n \in Names, v \in InitialValues, t \in TagSets \cup OrderedTagSets : Counter(n, v, t)
    \/ \E n \in Names, v \in InitialValues, t \in TagSets : Gauge(n, FALSE, v, t)
    \/ \E n \in Names, v \in InitialValues, t \in TagSets : Histogram(n, FALSE, v, t)
    \/ \E n \in Names, f \in BOOLEAN, r \in Resolutions, v \in InitialValues, t \in PlainTagSets :
          Timer(n, f, r, v, t)

SpecKeys == InitPlain /\ [][NextKeys]_vars

\* counters and the calls on them
NextCounters ==
    \/ \E n \in Names, v \in CounterInitialValues, t \in PlainTagSets : Counter(n, v, t)
    \/ \E i \in Indexes, amount \in Amounts : CounterIncrement(i, amount)
    \/ \E i \in Indexes, value \in ResetValues : CounterReset(i, value)

SpecCounters == InitPlain /\ [][NextCounters]_vars

\* timers started and stopped over time
NextTimers ==
    \/ Tick
    \/ \E n \in Names, f \in BOOLEAN, r \in Resolutions, v \in InitialValues : Timer(n, f, r, v, <<>>)
    \/ \E i, j \in Indexes : TimerStop(i, j)
    \/ \E i, j \in Indexes : TimerStart(i, j)

SpecTimers == InitPlain /\ [][NextTimers]_vars

\* timers given initial and set values
NextTimerValues ==
    \/ \E n \in Names, r \in Resolutions, v \in TimerInitialValues : Timer(n, FALSE, r, v, <<>>)
    \/ \E i, j \in Indexes, v \in SetValues : TimerSet(i, j, v)
    \/ \E i, j \in Indexes : TimerStop(i, j)

SpecTimerValues == InitPlain /\ [][NextTimerValues]_vars

\* fewer than MaxIds millisecond timers given initial and set values, started and
\* stopped over time
NextTimerCases ==
    \/ Tick
    \/ /\ next_id < MaxIds
       /\ \E n \in Names, v \in TimerInitialValues : Timer(n, FALSE, "ms", v, <<>>)
    \/ \E i, j \in Indexes, v \in SetValues : TimerSet(i, j, v)
    \/ \E i, j \in Indexes : TimerStop(i, j)
    \/ \E i, j \in Indexes : TimerStart(i, j)

SpecTimerCases == InitPlain /\ [][NextTimerCases]_vars

----------------------------------------------------------------------------
(* publish_metrics: src/pymetrics/publishers/utils.py *)

\* instruments a batch may hold, and publishers a configuration may name
MaxBatch == 2
MaxPublishers == 3

\* instruments handed to the publishers: a counter, a gauge and a running timer
SampleMetrics ==
    { NewMetric(1, "counter", <<"requests">>, 3, <<>>),
      NewMetric(2, "gauge", <<"svc", "requests">>, 10, <<>>),
      NewTimer(3, <<"requests">>, 0, "ms", <<>>, StartTime) }

\* the lists of at most MaxBatch distinct instruments
Batches ==
    { b \in UNION { [1..n -> SampleMetrics] : n \in 0..MaxBatch } :
        \A i, j \in DOMAIN b : i # j => b[i] # b[j] }

\* error_logger_name ("" stands for None)
LoggerNames == {"", "pymetrics"}
\* configuration.publishers: the publishers are told apart by their place in the declaration
PublisherLists == { [k \in 1..n |-> k] : n \in 0..MaxPublishers }

\* a recorder whose configuration names publishers
InitPublishers ==
    /\ InitRecorder
    /\ prefix = "svc"
    /\ configuration \in { Configuration(TRUE, m, l, p) :
                             m \in BOOLEAN, l \in LoggerNames, p \in PublisherLists }
    /\ maximum_packet_size = MAXIMUM_PACKET_SIZE
    /\ publisher = StatsdPublisher

\* publish_metrics(metrics, configuration), outcomes[k] being what the k-th publisher does
PublishMetrics(metrics, outcomes) ==
    /\ published' = PublisherCalls(metrics, outcomes)
    /\ raised' = IF \E k \in DOMAIN published' : outcomes[k] = "raises"
                 THEN "Exception" ELSE NoError
    /\ UNCHANGED scopes
    /\ call' = [op |-> "publish_metrics", args |-> <<metrics, outcomes>>]
    /\ ret' = None
    /\ sent' = <<>>
    /\ dispatched' = <<>>
    /\ publish_all_calls' = 0
    /\ UNCHANGED <<recorder, now, next_id, throttled_at, maximum_packet_size, publisher>>

\* publish_metrics over every batch and every behaviour of the publishers
NextPublishers ==
    \/ Tick
    \/ \E metrics \in Batches,
          outcomes \in [1..Len(configuration.publishers) -> PublishOutcomes] :
            PublishMetrics(metrics, outcomes)

SpecPublishers == InitPublishers /\ [][NextPublishers]_vars

----------------------------------------------------------------------------
(* StatsdPublisher: src/pymetrics/publishers/statsd.py *)

IP_HEADER_BYTES == 20
UDP_HEADER_BYTES == 8
MAX_IPV4_PACKET_SIZE_BYTES == 65535
MAX_GIG_E_MTU_BYTES == 9000
MAX_FAST_E_MTU_BYTES == 1518
MAX_IPV4_PAYLOAD_SIZE_BYTES == MAX_IPV4_PACKET_SIZE_BYTES - IP_HEADER_BYTES - UDP_HEADER_BYTES
MAX_GIG_E_PAYLOAD_SIZE_BYTES == MAX_GIG_E_MTU_BYTES - IP_HEADER_BYTES - UDP_HEADER_BYTES
MAX_FAST_E_PAYLOAD_SIZE_BYTES == MAX_FAST_E_MTU_BYTES - IP_HEADER_BYTES - UDP_HEADER_BYTES

\* maximum_packet_size arguments given to StatsdPublisher(...)
PacketSizes == {12, 20, 70, 70000}

\* StatsdPublisher.__init__: the packet size is capped at MAXIMUM_PACKET_SIZE
StatsdPublisherInit(packet_size) ==
    IF packet_size < MAXIMUM_PACKET_SIZE THEN packet_size ELSE MAXIMUM_PACKET_SIZE

\* len() of the strings that names and type labels are made of
\* ("x*1429" stands for the name 'x' * 1429, a string of 1429 bytes, and so on)
StrLen(s) ==
    CASE s = "" -> 0
      [] s = "c" -> 1
      [] s = "g" -> 1
      [] s = "ms" -> 2
      [] s = "svc" -> 3
      [] s = "requests" -> 8
      [] s = "pymetrics" -> 9
      [] s = "meta" -> 4
      [] s = "publish" -> 7
      [] s = "statsd" -> 6
      [] s = "format_metrics" -> 14
      [] s = "send" -> 4
      [] s = "num_metrics" -> 11
      [] s = "timer" -> 5
      [] s = "error" -> 5
      [] s = "max_packet" -> 10
      [] s = "unknown" -> 7
      [] s = "exceeds_max_packet" -> 18
      [] s = "exceeds_max_gig_e" -> 17
      [] s = "exceeds_max_fast_e" -> 18
      [] s = "h" -> 1
      [] s = "d" -> 1
      [] s = "|#" -> 2
      [] s = ":" -> 1
      [] s = "," -> 1
      [] s = "env" -> 3
      [] s = "qa" -> 2
      [] s = "flag" -> 4
      [] s = "region" -> 6
      [] s = "eu" -> 2
      [] s = "worker" -> 6
      [] s = "a" -> 1
      [] s = "x*1429" -> 1429
      [] s = "x*1430" -> 1430
      [] s = "x*8911" -> 8911
      [] s = "x*8912" -> 8912
      [] s = "x*65502" -> 65502
      [] s = "x*65503" -> 65503

\* len() of a dot-joined name
RECURSIVE NameLength(_)
NameLength(name) ==
    IF name = <<>> THEN 0
    ELSE IF Len(name) = 1 THEN StrLen(name[1])
    ELSE StrLen(name[1]) + 1 + NameLength(Tail(name))

\* len(b'%d' % n)
RECURSIVE Digits(_)
Digits(n) ==
    IF n < 0 THEN 1 + Digits(0 - n)
    ELSE IF n < 10 THEN 1 ELSE 1 + Digits(n \div 10)

\* METRIC_TYPE_COUNTER, METRIC_TYPE_GAUGE, self._metric_type_timer, self._metric_type_histogram
TypeLabel(kind) ==
    CASE kind = "counter" -> "c"
      [] kind = "gauge" -> "g"
      [] kind = "timer" -> publisher.metric_type_timer
      [] kind = "histogram" -> publisher.metric_type_histogram

\* a line b'%s:%d|%s' % (name, value, type_label), which carries no tag string
Line(name, value, type) ==
    [name |-> name, value |-> value, type |-> type, tags_string |-> <<>>]

\* len() of a byte string given as the list of its pieces
RECURSIVE PiecesLength(_)
PiecesLength(pieces) ==
    IF pieces = <<>> THEN 0 ELSE StrLen(pieces[1]) + PiecesLength(Tail(pieces))

\* len() of a formatted line
LineLength(l) ==
    NameLength(l.name) + 1 + Digits(l.value) + 1 + StrLen(l.type) + PiecesLength(l.tags_string)

\* len(b'\n'.join(lines))
RECURSIVE PayloadLength(_)
PayloadLength(lines) ==
    IF lines = <<>> THEN 0
    ELSE IF Len(lines) = 1 THEN LineLength(lines[1])
    ELSE LineLength(lines[1]) + 1 + PayloadLength(Tail(lines))

\* Timer('', resolution=TimerResolution.MICROSECONDS) stopped after `elapsed`: its value
PublisherTimerValue(elapsed) ==
    Value(Stop(NewTimer(0, <<"">>, 0, "us", <<>>, now), now + elapsed))

\* a formatting that prepends the meta line even when no instrument has a value
StatsdGetFormattedMetrics_MetaWhenEmpty(metrics, enable_meta_metrics, elapsed) ==
    LET valued == SelectSeq(metrics, LAMBDA m : Value(m) # None)
        formatted_metrics ==
            [i \in 1..Len(valued) |->
                Line(valued[i].name, The(Value(valued[i])), TypeLabel(valued[i].kind))]
    IN  IF ~enable_meta_metrics THEN [lines |-> formatted_metrics, raised |-> NoError]
        ELSE IF PublisherTimerValue(elapsed) = None
             THEN [lines |-> <<>>, raised |-> "TypeError"]
             ELSE [lines |-> <<Line(<<"pymetrics", "meta", "publish", "statsd", "format_metrics">>,
                                     The(PublisherTimerValue(elapsed)), publisher.metric_type_timer)>>
                             \o formatted_metrics,
                   raised |-> NoError]

\* StatsdPublisher.get_formatted_metrics, its meta timer measuring `elapsed`:
\* the lines, and the exception raised when the value of the meta timer, None after
\* no elapsed time, is formatted with %d
StatsdGetFormattedMetrics(metrics, enable_meta_metrics, elapsed) ==
    LET valued == SelectSeq(metrics, LAMBDA m : Value(m) # None)
        formatted_metrics ==
            [i \in 1..Len(valued) |->
                Line(valued[i].name, The(Value(valued[i])), TypeLabel(valued[i].kind))]
    IN  IF formatted_metrics = <<>> THEN [lines |-> <<>>, raised |-> NoError]
        ELSE IF ~enable_meta_metrics THEN [lines |-> formatted_metrics, raised |-> NoError]
        ELSE IF PublisherTimerValue(elapsed) = None
             THEN [lines |-> <<>>, raised |-> "TypeError"]
             ELSE [lines |-> <<Line(<<"pymetrics", "meta", "publish", "statsd", "format_metrics">>,
                                     The(PublisherTimerValue(elapsed)), publisher.metric_type_timer)>>
                             \o formatted_metrics,
                   raised |-> NoError]

----------------------------------------------------------------------------
(* DogStatsdPublisher: src/pymetrics/publishers/datadog.py *)

\* DogStatsdPublisher.MAXIMUM_PACKET_SIZE
DOGSTATSD_MAXIMUM_PACKET_SIZE == 8000

\* a tag string that puts a colon after every tag, with or without a value
RECURSIVE GenerateTagString_AlwaysColon(_, _)
GenerateTagString_AlwaysColon(tags, existing_tags_string) ==
    IF tags = <<>> THEN existing_tags_string
    ELSE LET tags_string == IF existing_tags_string # <<>>
                            THEN existing_tags_string \o <<",">>
                            ELSE <<"|#">>
         IN  GenerateTagString_AlwaysColon(Tail(tags),
                                           tags_string \o <<tags[1][1], ":">>
                                               \o Tail(tags[1][2]))

\* DogStatsdPublisher._generate_tag_string over a list of <<tag, value>> items: the
\* pieces of the byte string: b':%s' of a string, b':%d' of an integer, nothing of None
RECURSIVE GenerateTagString(_, _)
GenerateTagString(tags, existing_tags_string) ==
    IF tags = <<>> THEN existing_tags_string
    ELSE LET value_string == IF tags[1][2] # NoValue THEN <<":", tags[1][2][2]>> ELSE <<>>
             tags_string == IF existing_tags_string # <<>>
                            THEN existing_tags_string \o <<",">>
                            ELSE <<"|#">>
         IN  GenerateTagString(Tail(tags), tags_string \o <<tags[1][1]>> \o value_string)

\* DogStatsdPublisher.__init__: the tag strings and the type labels
DogStatsdPublisher(global_tags, extra_gauge_tags, use_distributions) ==
    [class |-> "dogstatsd",
     global_tags_string |-> GenerateTagString(global_tags, <<>>),
     global_gauge_tags_string |->
         GenerateTagString(extra_gauge_tags, GenerateTagString(global_tags, <<>>)),
     metric_type_histogram |-> IF use_distributions THEN "d" ELSE "h",
     metric_type_timer |-> IF use_distributions THEN "d" ELSE "ms"]

\* a line b'%s:%d|%s%s' % (name, value, type_label, metric_tags_string)
TaggedLine(name, value, type, tags_string) ==
    [name |-> name, value |-> value, type |-> type, tags_string |-> tags_string]

\* DogStatsdPublisher.get_formatted_metrics, its meta timer measuring `elapsed`
DogStatsdGetFormattedMetrics(metrics, enable_meta_metrics, elapsed) ==
    LET valued == SelectSeq(metrics, LAMBDA m : Value(m) # None)
        existing_tags_string(m) == IF m.kind = "gauge"
                                   THEN publisher.global_gauge_tags_string
                                   ELSE publisher.global_tags_string
        formatted_metrics ==
            [i \in 1..Len(valued) |->
                TaggedLine(valued[i].name, The(Value(valued[i])), TypeLabel(valued[i].kind),
                           GenerateTagString(valued[i].tags,
                                             existing_tags_string(valued[i])))]
    IN  IF formatted_metrics = <<>> THEN [lines |-> <<>>, raised |-> NoError]
        ELSE IF ~enable_meta_metrics THEN [lines |-> formatted_metrics, raised |-> NoError]
        ELSE IF PublisherTimerValue(elapsed) = None
             THEN [lines |-> <<>>, raised |-> "TypeError"]
             ELSE [lines |-> <<TaggedLine(<<"pymetrics", "meta", "publish", "statsd",
                                            "format_metrics">>,
                                          The(PublisherTimerValue(elapsed)),
                                          publisher.metric_type_timer,
                                          publisher.global_tags_string)>>
                             \o formatted_metrics,
                   raised |-> NoError]

\* self.get_formatted_metrics(metrics, enable_meta_metrics) on the publisher at hand
GetFormattedMetrics(metrics, enable_meta_metrics, elapsed) ==
    IF publisher.class = "dogstatsd"
    THEN DogStatsdGetFormattedMetrics(metrics, enable_meta_metrics, elapsed)
    ELSE StatsdGetFormattedMetrics(metrics, enable_meta_metrics, elapsed)

----------------------------------------------------------------------------
(* StatsdPublisher.publish: src/pymetrics/publishers/statsd.py *)

\* the loop of StatsdPublisher.publish over formatted_metrics[i..]: the payloads handed
\* to _send_chunked_payload, in order, as lists of lines
RECURSIVE PublishLoop(_, _, _, _)
PublishLoop(formatted_metrics, i, chunk, cumulative_length) ==
    IF i > Len(formatted_metrics)
    THEN IF chunk # <<>> THEN <<chunk>> ELSE <<>>
    ELSE LET metric_length == LineLength(formatted_metrics[i]) + 1
         IN  IF cumulative_length + metric_length > maximum_packet_size
             THEN <<chunk>> \o PublishLoop(formatted_metrics, i + 1,
                                           <<formatted_metrics[i]>>, metric_length)
             ELSE PublishLoop(formatted_metrics, i + 1,
                              Append(chunk, formatted_metrics[i]),
                              cumulative_length + metric_length)

\* the chunks StatsdPublisher.publish makes of the formatted lines
Chunks(formatted_metrics) == PublishLoop(formatted_metrics, 1, <<>>, 0)

\* what connecting and sending on a socket can do
SocketErrors == {"EMSGSIZE", "timeout"}

\* what creating and connecting a socket can do besides: socket.socket() raises when the
\* process is out of file descriptors, connect() when the host name does not resolve
ConnectErrors == {"EMFILE", "gaierror"}

\* a send that closes its socket only when nothing was raised
SocketCalls_CloseOnSuccess(outcome) ==
    CASE outcome = "EMFILE" -> <<"socket raises">>
      [] outcome = "gaierror" -> <<"socket", "settimeout", "connect raises">>
      [] outcome = "ok" -> <<"socket", "settimeout", "connect", "sendall", "close">>
      [] OTHER -> <<"socket", "settimeout", "connect", "sendall raises">>

\* the socket calls of one send of _send_chunked_payload: the try block runs up to
\* the call that raises, and the finally block closes the socket if one was made
SocketCalls(outcome) ==
    CASE outcome = "EMFILE" -> <<"socket raises">>
      [] outcome = "gaierror" -> <<"socket", "settimeout", "connect raises", "close">>
      [] outcome = "ok" -> <<"socket", "settimeout", "connect", "sendall", "close">>
      [] OTHER -> <<"socket", "settimeout", "connect", "sendall raises", "close">>

\* one send attempt: the payload, what became of it and the socket calls made for it
Datagram(kind, lines, num_metrics, outcome, logged) ==
    [kind |-> kind, lines |-> lines, num_metrics |-> num_metrics,
     outcome |-> outcome, logged |-> logged, socket_calls |-> SocketCalls(outcome)]

\* meta lines that take every error of the socket module for a packet too large,
\* whatever its errno
MetaLines_AnySocketError(num_bytes, number_of_metrics, timer_value, outcome) ==
    <<Line(<<"pymetrics", "meta", "publish", "statsd", "send">>, 1, "c"),
      Line(<<"pymetrics", "meta", "publish", "statsd", "send", "num_metrics">>,
           number_of_metrics, publisher.metric_type_histogram),
      Line(<<"pymetrics", "meta", "publish", "statsd", "send", "timer">>, timer_value,
           publisher.metric_type_timer)>>
    \o (IF outcome = "ok" THEN <<>>
        ELSE IF outcome \in {"EMSGSIZE", "EMFILE", "timeout"}
             THEN <<Line(<<"pymetrics", "meta", "publish", "statsd", "send", "error",
                           "max_packet">>, 1, "c")>>
             ELSE <<Line(<<"pymetrics", "meta", "publish", "statsd", "send", "error",
                           "unknown">>, 1, "c")>>)
    \o (IF num_bytes >= MAX_IPV4_PAYLOAD_SIZE_BYTES
        THEN <<Line(<<"pymetrics", "meta", "publish", "statsd", "send",
                      "exceeds_max_packet">>, 1, "c")>>
        ELSE <<>>)
    \o (IF num_bytes >= MAX_GIG_E_PAYLOAD_SIZE_BYTES
        THEN <<Line(<<"pymetrics", "meta", "publish", "statsd", "send",
                      "exceeds_max_gig_e">>, 1, "c")>>
        ELSE <<>>)
    \o (IF num_bytes >= MAX_FAST_E_PAYLOAD_SIZE_BYTES
        THEN <<Line(<<"pymetrics", "meta", "publish", "statsd", "send",
                      "exceeds_max_fast_e">>, 1, "c")>>
        ELSE <<>>)

\* meta lines whose size flags are raised only above the payload sizes
MetaLines_Above(num_bytes, number_of_metrics, timer_value, outcome) ==
    <<Line(<<"pymetrics", "meta", "publish", "statsd", "send">>, 1, "c"),
      Line(<<"pymetrics", "meta", "publish", "statsd", "send", "num_metrics">>,
           number_of_metrics, publisher.metric_type_histogram),
      Line(<<"pymetrics", "meta", "publish", "statsd", "send", "timer">>, timer_value,
           publisher.metric_type_timer)>>
    \o (IF outcome = "ok" THEN <<>>
        ELSE IF outcome = "EMSGSIZE"
             THEN <<Line(<<"pymetrics", "meta", "publish", "statsd", "send", "error",
                           "max_packet">>, 1, "c")>>
             ELSE <<Line(<<"pymetrics", "meta", "publish", "statsd", "send", "error",
                           "unknown">>, 1, "c")>>)
    \o (IF num_bytes > MAX_IPV4_PAYLOAD_SIZE_BYTES
        THEN <<Line(<<"pymetrics", "meta", "publish", "statsd", "send",
                      "exceeds_max_packet">>, 1, "c")>>
        ELSE <<>>)
    \o (IF num_bytes > MAX_GIG_E_PAYLOAD_SIZE_BYTES
        THEN <<Line(<<"pymetrics", "meta", "publish", "statsd", "send",
                      "exceeds_max_gig_e">>, 1, "c")>>
        ELSE <<>>)
    \o (IF num_bytes > MAX_FAST_E_PAYLOAD_SIZE_BYTES
        THEN <<Line(<<"pymetrics", "meta", "publish", "statsd", "send",
                      "exceeds_max_fast_e">>, 1, "c")>>
        ELSE <<>>)

\* the lines of the meta-metrics payload of _send_chunked_payload
MetaLines(num_bytes, number_of_metrics, timer_value, outcome) ==
    <<Line(<<"pymetrics", "meta", "publish", "statsd", "send">>, 1, "c"),
      Line(<<"pymetrics", "meta", "publish", "statsd", "send", "num_metrics">>,
           number_of_metrics, publisher.metric_type_histogram),
      Line(<<"pymetrics", "meta", "publish", "statsd", "send", "timer">>, timer_value,
           publisher.metric_type_timer)>>
    \o (IF outcome = "ok" THEN <<>>
        ELSE IF outcome = "EMSGSIZE"
             THEN <<Line(<<"pymetrics", "meta", "publish", "statsd", "send", "error",
                           "max_packet">>, 1, "c")>>
             ELSE <<Line(<<"pymetrics", "meta", "publish", "statsd", "send", "error",
                           "unknown">>, 1, "c")>>)
    \o (IF num_bytes >= MAX_IPV4_PAYLOAD_SIZE_BYTES
        THEN <<Line(<<"pymetrics", "meta", "publish", "statsd", "send",
                      "exceeds_max_packet">>, 1, "c")>>
        ELSE <<>>)
    \o (IF num_bytes >= MAX_GIG_E_PAYLOAD_SIZE_BYTES
        THEN <<Line(<<"pymetrics", "meta", "publish", "statsd", "send",
                      "exceeds_max_gig_e">>, 1, "c")>>
        ELSE <<>>)
    \o (IF num_bytes >= MAX_FAST_E_PAYLOAD_SIZE_BYTES
        THEN <<Line(<<"pymetrics", "meta", "publish", "statsd", "send",
                      "exceeds_max_fast_e">>, 1, "c")>>
        ELSE <<>>)

\* StatsdPublisher._send_chunked_payload: the datagrams it attempts and the exception
\* it raises.  `outcome` is what the socket does with the payload, `meta_outcome` what
\* it does with the meta-metrics payload, `elapsed` what the meta timer measures.
\* Every socket error is caught; the value of the meta timer, None after no elapsed
\* time, is formatted with %d outside any try block.
SendChunkedPayload(payload, number_of_metrics, error_logger, enable_meta_metrics, outcome, meta_outcome, elapsed) ==
    LET attempt == Datagram("metrics", payload, number_of_metrics, outcome,
                            outcome # "ok" /\ error_logger # "")
    IN  IF ~enable_meta_metrics THEN [datagrams |-> <<attempt>>, raised |-> NoError]
        ELSE IF PublisherTimerValue(elapsed) = None
             THEN [datagrams |-> <<attempt>>, raised |-> "TypeError"]
             ELSE [datagrams |->
                       <<attempt,
                         Datagram("meta",
                                  MetaLines(PayloadLength(payload), number_of_metrics,
                                            The(PublisherTimerValue(elapsed)), outcome),
                                  number_of_metrics, meta_outcome,
                                  meta_outcome # "ok" /\ error_logger # "")>>,
                   raised |-> NoError]

\* what a publish call meets: `failure` = <<k, kind, error>> makes the socket fail with
\* `error` on the payload (kind "metrics") or on the meta-metrics payload (kind "meta")
\* of the k-th chunk, k = 0 for no failure; `stall` is the first timer of the call to
\* measure no time, 0 for the timer of get_formatted_metrics, k for the timer of the
\* k-th chunk, more than the number of chunks for none
Outcome(failure, k, kind) == IF failure[1] = k /\ failure[2] = kind THEN failure[3] ELSE "ok"
Elapsed(stall, k) == IF stall = k THEN 0 ELSE 1

\* the calls of _send_chunked_payload made by publish for chunks[k..], up to the first
\* that raises
RECURSIVE SendChunks(_, _, _, _, _, _)
SendChunks(chunks, k, error_logger, enable_meta_metrics, failure, stall) ==
    IF k > Len(chunks) THEN [datagrams |-> <<>>, raised |-> NoError]
    ELSE LET r == SendChunkedPayload(chunks[k], Len(chunks[k]), error_logger,
                                     enable_meta_metrics, Outcome(failure, k, "metrics"),
                                     Outcome(failure, k, "meta"), Elapsed(stall, k))
             rest == SendChunks(chunks, k + 1, error_logger, enable_meta_metrics,
                                failure, stall)
         IN  IF r.raised # NoError THEN r
             ELSE [datagrams |-> r.datagrams \o rest.datagrams, raised |-> rest.raised]

\* StatsdPublisher.publish: the datagrams it attempts and the exception it raises
Publish(metrics, error_logger, enable_meta_metrics, failure, stall) ==
    LET f == GetFormattedMetrics(metrics, enable_meta_metrics, Elapsed(stall, 0))
    IN  IF metrics = <<>> THEN [datagrams |-> <<>>, raised |-> NoError]
        ELSE IF f.raised # NoError \/ f.lines = <<>>
             THEN [datagrams |-> <<>>, raised |-> f.raised]
             ELSE SendChunks(Chunks(f.lines), 1, error_logger, enable_meta_metrics,
                             failure, stall)

\* the number of chunks a batch is sent in when every timer measures time
NumChunks(metrics) ==
    Len(Chunks(GetFormattedMetrics(metrics, configuration.enable_meta_metrics, 1).lines))

\* the failures and the stalls a call with n chunks can meet; a socket that times out
\* takes time, and no timer runs when meta-metrics are off
Failures(n) ==
    {<<0, "metrics", "ok">>}
    \cup {<<k, "metrics", e>> : k \in 1..n, e \in SocketErrors}
    \cup (IF configuration.enable_meta_metrics
          THEN {<<k, "meta", "timeout">> : k \in 1..n} ELSE {})
Stalls(n, failure) ==
    IF configuration.enable_meta_metrics
    THEN (0..(n + 1)) \ (IF failure[3] = "timeout" /\ failure[2] = "metrics"
                         THEN {failure[1]} ELSE {})
    ELSE {n + 1}

\* publisher.publish(metrics, configuration.error_logger_name,
\* configuration.enable_meta_metrics) on the StatsdPublisher
StatsdPublish(metrics, failure, stall) ==
    LET r == Publish(metrics, configuration.error_logger_name,
                     configuration.enable_meta_metrics, failure, stall)
    IN  /\ sent' = r.datagrams
        /\ raised' = r.raised
        /\ UNCHANGED scopes
        /\ call' = [op |-> "publish",
                    args |-> <<metrics, configuration.error_logger_name,
                               configuration.enable_meta_metrics>>]
        /\ ret' = None
        /\ published' = <<>>
        /\ dispatched' = <<>>
        /\ publish_all_calls' = 0
        /\ UNCHANGED <<recorder, now, next_id, throttled_at, maximum_packet_size, publisher>>

\* a configuration whose one publisher is a StatsdPublisher
InitStatsd ==
    /\ InitRecorder
    /\ prefix = "svc"
    /\ configuration \in { Configuration(TRUE, m, l, <<1>>) :
                             m \in BOOLEAN, l \in LoggerNames }
    /\ maximum_packet_size \in { StatsdPublisherInit(s) : s \in PacketSizes }
    /\ publisher = StatsdPublisher

\* StatsdPublisher.publish over every batch, socket failure and clock
NextStatsd ==
    \E metrics \in Batches :
        \E failure \in Failures(NumChunks(metrics)) :
            \E stall \in Stalls(NumChunks(metrics), failure) :
                StatsdPublish(metrics, failure, stall)

SpecStatsd == InitStatsd /\ [][NextStatsd]_vars

\* a StatsdPublisher with a small or the default packet size, without error logger
InitSockets ==
    /\ InitStatsd
    /\ configuration.error_logger_name = ""
    /\ maximum_packet_size \in { StatsdPublisherInit(s) : s \in {20, 70000} }

\* the failures of Failures(n) and those of creating and connecting the socket
SocketFailures(n) ==
    Failures(n)
    \cup {<<k, "metrics", e>> : k \in 1..n, e \in ConnectErrors}
    \cup (IF configuration.enable_meta_metrics
          THEN {<<k, "meta", e>> : k \in 1..n, e \in ConnectErrors} ELSE {})

\* the clocks of Stalls(n, failure) on which the timer of the first chunk or no timer
\* measures no time
SocketStalls(n, failure) == Stalls(n, failure) \cap {1, n + 1}

\* StatsdPublisher.publish over batches of one or two instruments, every failure of a
\* socket call and clock
NextSockets ==
    \E metrics \in { b \in Batches : Len(b) <= 2 } :
        \E failure \in SocketFailures(NumChunks(metrics)) :
            \E stall \in SocketStalls(NumChunks(metrics), failure) :
                StatsdPublish(metrics, failure, stall)

SpecSockets == InitSockets /\ [][NextSockets]_vars

\* initial values given to histograms, which Metric.__init__ takes of any sign, and
\* to gauges, which Gauge.__init__ wants non-negative
HistogramInitialValues == {0 - 2, 0, 2}
GaugeInitialValues == {0, 2}
\* values given to Histogram.set and Gauge.set
SetArguments == {None, Some(0 - 2), Some(0), Some(2)}

\* counters, gauges and histograms that are set and reset to any value
NextSets ==
    \/ \E n \in Names, v \in CounterInitialValues : Counter(n, v, <<>>)
    \/ \E n \in Names, v \in GaugeInitialValues : Gauge(n, FALSE, v, <<>>)
    \/ \E n \in Names, v \in HistogramInitialValues : Histogram(n, FALSE, v, <<>>)
    \/ \E i \in Indexes, v \in ResetValues : CounterReset(i, v)
    \/ \E i, j \in Indexes, v \in SetArguments : GaugeSet(i, j, v)
    \/ \E i, j \in Indexes, v \in SetArguments : HistogramSet(i, j, v)

SpecSets == InitPlain /\ [][NextSets]_vars

----------------------------------------------------------------------------
(* Formatting: get_formatted_metrics of the StatsdPublisher and the DogStatsdPublisher *)

\* instruments to format: counters with and without a tag, gauges with two tags, one
\* of them without a value, given in either order, a histogram and a timer that is
\* still running
FormatSamples ==
    { NewMetric(1, "counter", <<"requests">>, 1, <<>>),
      NewMetric(2, "counter", <<"requests">>, 1, << <<"env", Str("qa")>> >>),
      NewMetric(3, "gauge", <<"requests">>, 2, << <<"env", Str("qa")>>, <<"flag", NoValue>> >>),
      NewMetric(4, "histogram", <<"requests">>, 2, << <<"env", Str("qa")>> >>),
      NewTimer(5, <<"requests">>, 0, "ms", << <<"env", Str("qa")>> >>, StartTime),
      NewMetric(6, "gauge", <<"requests">>, 2, << <<"flag", NoValue>>, <<"env", Str("qa")>> >>) }

\* the lists of at most MaxBatch distinct instruments to format
FormatBatches ==
    { b \in UNION { [1..n -> FormatSamples] : n \in 0..MaxBatch } :
        \A i, j \in DOMAIN b : i # j => b[i] # b[j] }

\* global_tags and extra_gauge_tags given to DogStatsdPublisher(...), in dict order
GlobalTags == { <<>>, << <<"region", Str("eu")>>, <<"flag", NoValue>> >> }
ExtraGaugeTags == { <<>>, << <<"worker", Str("a")>> >> }

\* the publishers that format
Publishers ==
    {StatsdPublisher}
    \cup { DogStatsdPublisher(g, e, d) : g \in GlobalTags, e \in ExtraGaugeTags, d \in BOOLEAN }

\* a StatsdPublisher or a DogStatsdPublisher with its default packet size
InitFormat ==
    /\ InitRecorder
    /\ prefix = "svc"
    /\ configuration = Configuration(TRUE, FALSE, "", <<1>>)
    /\ publisher \in Publishers
    /\ maximum_packet_size = IF publisher.class = "dogstatsd"
                             THEN DOGSTATSD_MAXIMUM_PACKET_SIZE ELSE MAXIMUM_PACKET_SIZE

\* publisher.get_formatted_metrics(metrics, enable_meta_metrics), the meta timer
\* measuring `elapsed`: the call returns the lines
FormatMetrics(metrics, enable_meta_metrics, elapsed) ==
    LET r == GetFormattedMetrics(metrics, enable_meta_metrics, elapsed)
    IN  /\ ret' = IF r.raised = NoError THEN Some(r.lines) ELSE None
        /\ raised' = r.raised
        /\ UNCHANGED scopes
        /\ call' = [op |-> "get_formatted_metrics", args |-> <<metrics, enable_meta_metrics>>]
        /\ sent' = <<>>
        /\ published' = <<>>
        /\ dispatched' = <<>>
        /\ publish_all_calls' = 0
        /\ UNCHANGED <<recorder, now, next_id, throttled_at, maximum_packet_size, publisher>>

NextFormat ==
    \E metrics \in FormatBatches, enable_meta_metrics \in BOOLEAN, elapsed \in {0, 1} :
        FormatMetrics(metrics, enable_meta_metrics, elapsed)

SpecFormat == InitFormat /\ [][NextFormat]_vars

\* instruments to publish: a counter, a gauge and a timer that is still running
PublishSamples == { m \in FormatSamples : m.id \in {1, 3, 5} }

\* the lists of at most MaxBatch distinct instruments to publish
PublishBatches ==
    { b \in UNION { [1..n -> PublishSamples] : n \in 0..MaxBatch } :
        \A i, j \in DOMAIN b : i # j => b[i] # b[j] }

\* either publisher, in a configuration with or without meta-metrics
InitFormatPublish ==
    /\ InitRecorder
    /\ prefix = "svc"
    /\ configuration \in { Configuration(TRUE, m, "", <<1>>) : m \in BOOLEAN }
    /\ publisher \in Publishers
    /\ maximum_packet_size = IF publisher.class = "dogstatsd"
                             THEN DOGSTATSD_MAXIMUM_PACKET_SIZE ELSE MAXIMUM_PACKET_SIZE

\* formatting and publishing with either publisher
NextFormatPublish ==
    \/ \E metrics \in PublishBatches, enable_meta_metrics \in BOOLEAN, elapsed \in {0, 1} :
          FormatMetrics(metrics, enable_meta_metrics, elapsed)
    \/ \E metrics \in PublishBatches :
          \E failure \in Failures(NumChunks(metrics)) :
              \E stall \in Stalls(NumChunks(metrics), failure) :
                  StatsdPublish(metrics, failure, stall)

SpecFormatPublish == InitFormatPublish /\ [][NextFormatPublish]_vars

\* the text of a line, b'%s:%d|%s%s': the name, the value and the pieces around them
LineText(l) == <<l.name, ":", l.value, "|", l.type>> \o l.tags_string

----------------------------------------------------------------------------
(* Configuring the recorder: src/pymetrics/recorders/default.py, src/pymetrics/configuration.py *)

\* a configuration dictionary
ConfigDict(version, enable_meta_metrics, error_logger_name, publishers) ==
    [version |-> version, enable_meta_metrics |-> enable_meta_metrics,
     error_logger_name |-> error_logger_name, publishers |-> publishers]

\* config=None, or an empty dictionary
NoConfig == ConfigDict(None, FALSE, "", <<>>)

\* the dictionaries passed to configure: none, and dictionaries of version 2 and of the
\* unknown version 3, with and without publishers
ConfigDicts ==
    {NoConfig}
    \cup { ConfigDict(Some(v), m, l, p) :
             v \in {2, 3}, m \in BOOLEAN, l \in LoggerNames, p \in PublisherLists }

\* what Django's settings hold: nothing outside Django, a valid or an invalid dictionary
DjangoConfigs ==
    {NoConfig, ConfigDict(Some(2), FALSE, "", <<1>>), ConfigDict(Some(3), FALSE, "", <<1>>)}

\* CONFIGURATION_SCHEMA: a known version and at least one publisher
ValidConfig(config) == config.version \in {Some(1), Some(2)} /\ Len(config.publishers) >= 1

\* create_configuration(config_dict): the configuration, or the validation error raised
CreateConfiguration(config) ==
    IF ValidConfig(config)
    THEN [configuration |-> Configuration(TRUE, config.enable_meta_metrics,
                                          config.error_logger_name, config.publishers),
          raised |-> NoError]
    ELSE [configuration |-> configuration, raised |-> "ValidationError"]

\* the recorder without a configuration
Unconfigured == Configuration(FALSE, FALSE, "", <<>>)

\* a configure that does not look at the configuration the recorder holds
ConfigureResult_Always(config, django) ==
    IF config # NoConfig
    THEN CreateConfiguration(config)
    ELSE IF django # NoConfig
         THEN CreateConfiguration(django)
         ELSE [configuration |-> Unconfigured, raised |-> NoError]

\* what configure(config) leaves in self._configuration and raises, Django's settings
\* holding `django`
ConfigureResult(config, django) ==
    IF is_configured
    THEN [configuration |-> configuration, raised |-> NoError]
    ELSE IF config # NoConfig
         THEN CreateConfiguration(config)
         ELSE IF django # NoConfig
              THEN CreateConfiguration(django)
              ELSE [configuration |-> Unconfigured, raised |-> NoError]

\* DefaultMetricsRecorder.configure
Configure(config, django) ==
    LET r == ConfigureResult(config, django)
    IN  /\ configuration' = r.configuration
        /\ raised' = r.raised
        /\ UNCHANGED scopes
        /\ call' = [op |-> "configure", args |-> <<config>>]
        /\ ret' = None
        /\ published' = <<>>
        /\ sent' = <<>>
        /\ dispatched' = <<>>
        /\ publish_all_calls' = 0
        /\ UNCHANGED <<prefix, counters, gauges, histograms, timers,
                       unpublished_metrics_count, last_publish_timestamp, now, next_id,
                       throttled_at, maximum_packet_size, publisher>>

\* DefaultMetricsRecorder('svc'), outside Django
InitConfigure ==
    /\ InitRecorder
    /\ prefix = "svc"
    /\ configuration = Unconfigured
    /\ maximum_packet_size = MAXIMUM_PACKET_SIZE
    /\ publisher = StatsdPublisher

\* configure calls, as time passes
NextConfigure ==
    \/ Tick
    \/ \E config \in ConfigDicts, django \in DjangoConfigs : Configure(config, django)

SpecConfigure == InitConfigure /\ [][NextConfigure]_vars

----------------------------------------------------------------------------
(* Constructing publishers: src/pymetrics/publishers/statsd.py, src/pymetrics/publishers/datadog.py *)

\* maximum_packet_size arguments around both ceilings; None stands for an omitted argument
ConstructorPacketSizes ==
    {None} \cup { Some(n) : n \in {1, 512, 7999, 8000, 8001, 9000, 64999, 65000, 65001, 70000} }

\* a DogStatsdPublisher capped at the ceiling of the StatsdPublisher
DogStatsdPublisherInit_StatsdCeiling(packet_size) ==
    IF packet_size = None
    THEN DOGSTATSD_MAXIMUM_PACKET_SIZE
    ELSE IF The(packet_size) < MAXIMUM_PACKET_SIZE THEN The(packet_size)
         ELSE MAXIMUM_PACKET_SIZE

\* DogStatsdPublisher.__init__: the default is the class's own MAXIMUM_PACKET_SIZE, and
\* StatsdPublisher.__init__ caps the size at self.MAXIMUM_PACKET_SIZE, the DogStatsd one
DogStatsdPublisherInit(packet_size) ==
    LET given == IF packet_size = None THEN DOGSTATSD_MAXIMUM_PACKET_SIZE ELSE The(packet_size)
    IN  IF given < DOGSTATSD_MAXIMUM_PACKET_SIZE THEN given ELSE DOGSTATSD_MAXIMUM_PACKET_SIZE

\* StatsdPublisher(host, port[, maximum_packet_size=...]) or DogStatsdPublisher(...)
Construct(p, packet_size) ==
    /\ publisher' = p
    /\ maximum_packet_size' =
          IF p.class = "dogstatsd"
          THEN DogStatsdPublisherInit(packet_size)
          ELSE StatsdPublisherInit(IF packet_size = None THEN MAXIMUM_PACKET_SIZE
                                   ELSE The(packet_size))
    /\ UNCHANGED scopes
    /\ call' = [op |-> "publisher.__init__", args |-> <<p.class, packet_size>>]
    /\ ret' = None
    /\ raised' = NoError
    /\ published' = <<>>
    /\ sent' = <<>>
    /\ dispatched' = <<>>
    /\ publish_all_calls' = 0
    /\ UNCHANGED <<recorder, now, next_id, throttled_at>>

\* publishers are constructed, one after the other
NextConstruct ==
    \E p \in Publishers, packet_size \in ConstructorPacketSizes : Construct(p, packet_size)

SpecConstruct == InitFormat /\ [][NextConstruct]_vars

----------------------------------------------------------------------------
(* Counter.record_over_function: src/pymetrics/instruments.py *)

\* the callables given to record_over_function: one returns 7, one returns the value
\* it reads from the counter when it is called, one raises
Callables == {"seven", "read_counter", "raises"}
\* the callables given to Timer.record_over_function
TimerCallables == {"seven", "raises"}

\* f(*args, **kwargs) called when the counter is m: <<the result, the exception raised>>
CallCallable(f, m) ==
    CASE f = "seven" -> <<Some(7), NoError>>
      [] f = "read_counter" -> <<Some(m.value), NoError>>
      [] f = "raises" -> <<None, "RuntimeError">>

\* a record_over_function that calls f first and increments when f has returned
RecordOverFunction_CallFirst(m, f) ==
    LET r == CallCallable(f, m)
    IN  IF r[2] = NoError THEN <<Increment(m, 1), r[1], r[2]>> ELSE <<m, r[1], r[2]>>

\* Counter.record_over_function: <<the counter afterwards, the result, the exception raised>>
RecordOverFunction(m, f) ==
    LET incremented == Increment(m, 1)
        r == CallCallable(f, incremented)
    IN  <<incremented, r[1], r[2]>>

\* Counter.record_over_function on the i-th counter, up to the call of f: the counter is
\* incremented and f runs, and may call the recorder, until it returns or raises
CounterRecordOverFunction(i, f) ==
    /\ i \in DOMAIN counters
    /\ Len(scopes) < MaxDepth
    /\ counters[i].val.value + 1 \in (0 - MaxIncrements)..MaxIncrements
    /\ counters' = [counters EXCEPT ![i].val = RecordOverFunction(@, f)[1]]
    /\ scopes' = Append(scopes, [id |-> counters[i].val.id, through |-> "Counter.record_over_function",
                                 entered |-> now,
                                 result |-> RecordOverFunction(counters[i].val, f)[2],
                                 error |-> RecordOverFunction(counters[i].val, f)[3]])
    /\ call' = [op |-> "record_over_function", args |-> <<counters[i].val.id, f>>]
    /\ Quiet
    /\ ret' = None
    /\ dispatched' = <<>>
    /\ publish_all_calls' = 0
    /\ UNCHANGED <<prefix, configuration, gauges, histograms, timers,
                   unpublished_metrics_count, last_publish_timestamp, now, next_id,
                   throttled_at>>

\* Counter.record_over_function, when f ends: its result is returned, its exception propagates
CounterRecordOverFunctionReturn ==
    /\ scopes # <<>>
    /\ Last(scopes).through = "Counter.record_over_function"
    /\ scopes' = SubSeq(scopes, 1, Len(scopes) - 1)
    /\ call' = [op |-> "return", args |-> <<Last(scopes).id, Last(scopes).through>>]
    /\ ret' = Last(scopes).result
    /\ raised' = Last(scopes).error
    /\ published' = <<>>
    /\ sent' = <<>>
    /\ dispatched' = <<>>
    /\ publish_all_calls' = 0
    /\ UNCHANGED <<recorder, now, next_id, throttled_at, maximum_packet_size, publisher>>

\* a counter, incremented directly and over callables
NextRecordOverFunction ==
    \/ \E n \in Names, v \in CounterInitialValues : Counter(n, v, <<>>)
    \/ \E i \in Indexes, amount \in Amounts : CounterIncrement(i, amount)
    \/ \E i \in Indexes, f \in Callables : CounterRecordOverFunction(i, f)
    \/ CounterRecordOverFunctionReturn

SpecRecordOverFunction == InitPlain /\ [][NextRecordOverFunction]_vars

----------------------------------------------------------------------------
(* Timer.__enter__, Timer.__exit__, Timer.record_over_function: src/pymetrics/instruments.py *)

\* Timer.__enter__ on the j-th timer of the i-th key, at the head of a `with timer:`
\* statement whose block raises or not; the block runs, and may call the recorder,
\* until Timer.__exit__
TimerEnter(i, j, raises) ==
    /\ i \in DOMAIN timers
    /\ j \in DOMAIN timers[i].val
    /\ Len(scopes) < MaxDepth
    /\ timers' = [timers EXCEPT ![i].val[j] = Start(@, now)]
    /\ scopes' = Append(scopes, [id |-> timers[i].val[j].id, through |-> "with",
                                 entered |-> now, result |-> None,
                                 error |-> IF raises THEN "RuntimeError" ELSE NoError])
    /\ call' = [op |-> "__enter__", args |-> <<timers[i].val[j].id, raises>>]
    /\ Quiet
    /\ ret' = Some(timers[i].val[j].id)
    /\ dispatched' = <<>>
    /\ publish_all_calls' = 0
    /\ UNCHANGED <<prefix, configuration, counters, gauges, histograms,
                   unpublished_metrics_count, last_publish_timestamp, now, next_id,
                   throttled_at>>

\* Timer.record_over_function on the j-th timer of the i-th key, up to the call of f:
\* `with self:` starts the timer and f runs, and may call the recorder, until Timer.__exit__
TimerRecordOverFunction(i, j, f) ==
    /\ i \in DOMAIN timers
    /\ j \in DOMAIN timers[i].val
    /\ Len(scopes) < MaxDepth
    /\ timers' = [timers EXCEPT ![i].val[j] = Start(@, now)]
    /\ scopes' = Append(scopes, [id |-> timers[i].val[j].id, through |-> "record_over_function",
                                 entered |-> now,
                                 result |-> CallCallable(f, timers[i].val[j])[1],
                                 error |-> CallCallable(f, timers[i].val[j])[2]])
    /\ call' = [op |-> "record_over_function", args |-> <<timers[i].val[j].id, f>>]
    /\ Quiet
    /\ ret' = None
    /\ dispatched' = <<>>
    /\ publish_all_calls' = 0
    /\ UNCHANGED <<prefix, configuration, counters, gauges, histograms,
                   unpublished_metrics_count, last_publish_timestamp, now, next_id,
                   throttled_at>>

\* the timers after stop() on the timer `id`, when the recorder still holds it
StopHeld(id) ==
    [k \in DOMAIN timers |->
        [key |-> timers[k].key,
         val |-> [n \in DOMAIN timers[k].val |->
                    IF timers[k].val[n].id = id THEN Stop(timers[k].val[n], now)
                    ELSE timers[k].val[n]]]]

\* an exit that leaves the timer running when the block or the callable raised
TimerExit_NoStopOnRaise ==
    /\ scopes # <<>>
    /\ Last(scopes).through \in {"with", "record_over_function"}
    /\ timers' = IF Last(scopes).error # NoError THEN timers ELSE StopHeld(Last(scopes).id)
    /\ scopes' = SubSeq(scopes, 1, Len(scopes) - 1)
    /\ call' = [op |-> "__exit__", args |-> <<Last(scopes).id, Last(scopes).through>>]
    /\ ret' = Last(scopes).result
    /\ raised' = Last(scopes).error
    /\ published' = <<>>
    /\ sent' = <<>>
    /\ dispatched' = <<>>
    /\ publish_all_calls' = 0
    /\ UNCHANGED <<prefix, configuration, counters, gauges, histograms,
                   unpublished_metrics_count, last_publish_timestamp, now, next_id,
                   throttled_at, maximum_packet_size, publisher>>

\* Timer.__exit__ at the end of the innermost block or callable: the timer is stopped,
\* the exception of the block propagates (__exit__ returns False) and
\* record_over_function returns what f returned
TimerExit ==
    /\ scopes # <<>>
    /\ Last(scopes).through \in {"with", "record_over_function"}
    /\ timers' = StopHeld(Last(scopes).id)
    /\ scopes' = SubSeq(scopes, 1, Len(scopes) - 1)
    /\ call' = [op |-> "__exit__", args |-> <<Last(scopes).id, Last(scopes).through>>]
    /\ ret' = Last(scopes).result
    /\ raised' = Last(scopes).error
    /\ published' = <<>>
    /\ sent' = <<>>
    /\ dispatched' = <<>>
    /\ publish_all_calls' = 0
    /\ UNCHANGED <<prefix, configuration, counters, gauges, histograms,
                   unpublished_metrics_count, last_publish_timestamp, now, next_id,
                   throttled_at, maximum_packet_size, publisher>>

\* fewer than MaxIds timers used around a block or a callable, which calls the recorder
\* and lets time pass
NextScopes ==
    \/ Tick
    \/ /\ next_id < MaxIds
       /\ \E n \in Names, f \in BOOLEAN, v \in InitialValues : Timer(n, f, "ms", v, <<>>)
    \/ \E i, j \in Indexes : TimerStop(i, j)
    \/ \E i, j \in Indexes, raises \in BOOLEAN : TimerEnter(i, j, raises)
    \/ \E i, j \in Indexes, f \in TimerCallables : TimerRecordOverFunction(i, j, f)
    \/ TimerExit

SpecScopes == InitPlain /\ [][NextScopes]_vars

----------------------------------------------------------------------------
(* publish_all over time: src/pymetrics/recorders/default.py, src/pymetrics/publishers/utils.py *)

\* a recorder whose configuration names publishers and no error logger
InitPublishAll ==
    /\ InitPublishers
    /\ configuration.error_logger_name = ""
    /\ configuration.publishers # <<>>

\* counters and timers recorded over time and published through publishers that may raise
NextPublishAll ==
    \/ Tick
    \/ \E n \in Names, v \in InitialValues : Counter(n, v, <<>>)
    \/ \E n \in Names, v \in InitialValues : Timer(n, FALSE, "ms", v, <<>>)
    \/ PublishAll

SpecPublishAll == InitPublishAll /\ [][NextPublishAll]_vars

\* counters whose names make the payload one byte shorter than, and exactly as long as,
\* MAX_FAST_E_PAYLOAD_SIZE_BYTES, MAX_GIG_E_PAYLOAD_SIZE_BYTES (after the 55-byte line
\* of the format_metrics timer) and MAX_IPV4_PAYLOAD_SIZE_BYTES (a line longer than
\* the packet size, sent alone)
LongNames == {"x*1429", "x*1430", "x*8911", "x*8912", "x*65502", "x*65503"}
SizedMetrics ==
    { NewMetric(1, "counter", <<n>>, 1, <<>>) : n \in LongNames }
    \cup { NewMetric(2, "counter", <<"requests">>, 3, <<>>) }
SizedBatches ==
    { b \in UNION { [1..n -> SizedMetrics] : n \in 1..2 } :
        \A i, j \in DOMAIN b : i # j => b[i] # b[j] }

\* a StatsdPublisher with the default packet size
InitSizes ==
    /\ InitStatsd
    /\ maximum_packet_size = StatsdPublisherInit(MAXIMUM_PACKET_SIZE)

\* StatsdPublisher.publish of counters with long names, over every failure of a send,
\* every timer measuring time
NextSizes ==
    \E metrics \in SizedBatches :
        \E failure \in Failures(NumChunks(metrics)) :
            StatsdPublish(metrics, failure, NumChunks(metrics) + 1)

SpecSizes == InitSizes /\ [][NextSizes]_vars

----------------------------------------------------------------------------
(* Properties of publishing *)

Range(s) == {s[i] : i \in DOMAIN s}

\* the instruments the recorder holds
Held == Range(Values(counters)) \cup Range(Flatten(gauges))
        \cup Range(Flatten(histograms)) \cup Range(Flatten(timers))

\* C1: when the recorder is configured, publish_all hands the dispatcher exactly
\* one batch, equal to what get_all_metrics returns at that moment, in which every
\* recorded name carries the recorder's prefix; afterwards the unpublished count
\* is 0 whenever no timer was left running.  (Read of the calls that return: what a
\* raising publisher leaves behind is the subject of C30.)
C1_CountZeroUnlessTimerRunning ==
    [][(publish_all_calls' = 1 /\ is_configured /\ raised' = NoError) =>
          /\ dispatched' = <<GetAllMetrics(now' - now)>>
          /\ \A m \in Range(dispatched'[1]) :
                (m.id # 0 /\ prefix # "") => Head(m.name) = prefix
          /\ (\A m \in Range(Flatten(timers)) : m.start_time = None)
                => unpublished_metrics_count' = 0
      ]_vars

\* C2: publish_if_full_or_old(max_metrics, max_age) runs publish_all exactly when
\* the unpublished count exceeds max_metrics or the time since the last publish is
\* at least max_age; otherwise it leaves the recorder unchanged.
C2_PublishIfFullOrOld ==
    [][\A m \in MaxMetricsArgs, a \in AgeArgs :
          PublishIfFullOrOld(m, a) =>
             /\ (publish_all_calls' = 1) <=>
                   (unpublished_metrics_count > m \/ now - last_publish_timestamp >= a)
             /\ (publish_all_calls' = 0) => (dispatched' = <<>> /\ UNCHANGED recorder)
      ]_vars

\* publish_if_full_or_old declined with as many unpublished metrics as max_metrics
C2_Witness ==
    /\ call.op = "publish_if_full_or_old"
    /\ publish_all_calls = 0
    /\ unpublished_metrics_count = call.args[1]
    /\ now - last_publish_timestamp < call.args[2]

\* C3 (as stated): on a recorder that has not reached max_age,
\* publish_if_full_or_old publishes as soon as the recorder holds at least
\* max_metrics unpublished metrics, and not when it holds fewer.
C3_PublishesAtMaxMetrics ==
    [][\A m \in MaxMetricsArgs, a \in AgeArgs :
          (PublishIfFullOrOld(m, a) /\ now - last_publish_timestamp < a) =>
             ((publish_all_calls' = 1) <=> (unpublished_metrics_count >= m))
      ]_vars

\* C4 (as stated): throttled_publish_all(delay) runs publish_all if and only if at
\* least delay seconds have passed since the last publish the recorder stamped,
\* whatever the number of metrics held; and a publish_all it runs comes at least
\* delay seconds after the previous publish_all that throttled_publish_all(delay)
\* ran, whether that one returned or raised.
C4_ThrottledPublishAll ==
    [][\A d \in DelayArgs :
          ThrottledPublishAll(d) =>
             /\ (publish_all_calls' = 1) <=> (now - last_publish_timestamp >= d)
             /\ (publish_all_calls' = 1 /\ throttled_at[d] # None)
                   => now - The(throttled_at[d]) >= d
      ]_vars

\* C10: on an unconfigured recorder publish_all hands nothing to the dispatcher,
\* calls no publisher and raises nothing, yet it drops every instrument that has a
\* value, so that get_all_metrics is empty afterwards, and it sets the last-publish
\* timestamp to the current time.
C10_UnconfiguredPublishAll ==
    [][(publish_all_calls' = 1 /\ ~is_configured) =>
          /\ dispatched' = <<>>
          /\ published' = <<>>
          /\ raised' = NoError
          /\ GetAllMetrics(0)' = <<>>
          /\ \A m \in Held' : Value(m) = None
          /\ last_publish_timestamp' = now'
          /\ last_publish_timestamp' >= last_publish_timestamp
      ]_vars

\* an unconfigured recorder that held instruments has just run publish_all
C10_Witness ==
    /\ call.op = "publish_all"
    /\ ~is_configured
    /\ next_id > 1
    /\ dispatched = <<>>
    /\ raised = NoError
    /\ counters = <<>>
    /\ last_publish_timestamp = now

----------------------------------------------------------------------------
(* Properties of the instruments the recorder hands out and holds *)

\* the tag set of a tag mapping, a tag called resolution left out: the key is meant
\* not to depend on that tag
PlainItems(tags) == { p \in {tags[i] : i \in DOMAIN tags} : p[1] # "resolution" }

\* C5 (as stated): two successive recorder.counter calls with the same name return
\* the same Counter, counted once, when their tags are identical, and two different
\* Counters when their tag sets differ in a tag other than resolution.
C5_CounterPerTagSet ==
    [][(call.op = "counter" /\ call'.op = "counter" /\ call'.args[1] = call.args[1]) =>
          /\ (call'.args[3] = call.args[3]) =>
                (ret' = ret /\ unpublished_metrics_count' = unpublished_metrics_count)
          /\ (PlainItems(call'.args[3]) # PlainItems(call.args[3])) => ret' # ret
      ]_vars

\* C6 (as stated): a gauge overwrites in place: a recorder.gauge call without
\* force_new never adds a second Gauge to a key the recorder already holds.
C6_GaugeOverwritesInPlace ==
    [][(call'.op = "gauge" /\ ~call'.args[2]) =>
          \A i \in DOMAIN gauges' :
             i \in DOMAIN gauges => Len(gauges'[i].val) = Len(gauges[i].val)
      ]_vars

\* the key a histogram or timer call uses
KeyOf(c) ==
    IF c.op = "histogram"
    THEN GetName(c.args[1], c.args[4])[2]
    ELSE GetName(c.args[1], << <<"resolution", c.args[3]>> >> \o c.args[5])[2]

\* C7: recorder.histogram and recorder.timer return the most recent instance of the
\* key's list; they append a new instance exactly when the key has no instance,
\* force_new is set or the most recent instance has a non-None value, and otherwise
\* leave the lists as they are and return an instance whose value is still None.
C7_AppendOnlyWhenNeeded ==
    [][(call'.op \in {"histogram", "timer"}) =>
          LET key == KeyOf(call')
              before == IF call'.op = "histogram" THEN histograms ELSE timers
              after == IF call'.op = "histogram" THEN histograms' ELSE timers'
              needed == \/ key \notin Keys(before)
                        \/ call'.args[2]
                        \/ Value(Last(Lookup(before, key))) # None
          IN  /\ key \in Keys(after)
              /\ ret' = Some(Last(Lookup(after, key)).id)
              /\ needed => /\ SumLen(after) = SumLen(before) + 1
                           /\ ret' = Some(next_id)
                           /\ unpublished_metrics_count' = unpublished_metrics_count + 1
              /\ ~needed => /\ after = before
                            /\ Value(Last(Lookup(after, key))) = None
                            /\ unpublished_metrics_count' = unpublished_metrics_count
      ]_vars

\* a timer call has returned the running timer already held, next to an older
\* instance of the same key that has a value
C7_Witness ==
    /\ call.op = "timer"
    /\ ~call.args[2]
    /\ ret # Some(next_id - 1)
    /\ \E i \in DOMAIN timers :
          /\ Len(timers[i].val) = 2
          /\ Value(timers[i].val[1]) # None
          /\ timers[i].val[2].id = The(ret)
          /\ Value(timers[i].val[2]) = None

\* position of a kind of instrument in the batch
KindRank(kind) ==
    CASE kind = "counter" -> 1
      [] kind = "gauge" -> 2
      [] kind = "histogram" -> 3
      [] kind = "timer" -> 4

\* C8: get_all_metrics returns (after the meta timer, when meta-metrics are enabled)
\* every counter whatever its value and exactly the gauges, histograms and timers
\* whose value is not None, each once, in the order counters, gauges, histograms, timers.
C8_GetAllMetrics ==
    \A e \in {0, 1} :
       LET all == GetAllMetrics(e)
           body == IF configuration.enable_meta_metrics THEN Tail(all) ELSE all
           expected == {m \in Held : m.kind = "counter" \/ Value(m) # None}
       IN  /\ Range(body) = expected
           /\ Len(body) = Cardinality(expected)
           /\ \A i, j \in DOMAIN body :
                 i < j => KindRank(body[i].kind) <= KindRank(body[j].kind)

\* a counter of value 0, a histogram and a timer without a value are held:
\* get_all_metrics returns the counter and the histogram, in that order
C8_Witness ==
    /\ ~configuration.enable_meta_metrics
    /\ \E m \in Range(Values(counters)) : Value(m) = Some(0)
    /\ histograms # <<>>
    /\ \E m \in Range(Flatten(timers)) : Value(m) = None
    /\ Len(GetAllMetrics(0)) = 2
    /\ GetAllMetrics(0)[1].kind = "counter"
    /\ GetAllMetrics(0)[2].kind = "histogram"

\* the instruments of a dict of lists whose value is still None
Unpublished(d) == SelectSeq(Flatten(d), LAMBDA m : Value(m) = None)

\* C9: clear() drops every instrument and sets the unpublished count to 0;
\* clear(only_published=True) drops the counters and the gauges, keeps under each key
\* exactly the histograms and timers whose value is None, drops the keys left with
\* none, and sets the unpublished count to the number of instruments kept.
C9_Clear ==
    [][(call'.op = "clear") =>
          /\ counters' = <<>>
          /\ gauges' = <<>>
          /\ ~call'.args[1] =>
                (histograms' = <<>> /\ timers' = <<>> /\ unpublished_metrics_count' = 0)
          /\ call'.args[1] =>
                /\ Flatten(histograms') = Unpublished(histograms)
                /\ Flatten(timers') = Unpublished(timers)
                /\ \A i \in DOMAIN histograms' :
                      /\ histograms'[i].val # <<>>
                      /\ histograms'[i].key \in Keys(histograms)
                      /\ Range(histograms'[i].val)
                            \subseteq Range(Lookup(histograms, histograms'[i].key))
                /\ \A i \in DOMAIN timers' :
                      /\ timers'[i].val # <<>>
                      /\ timers'[i].key \in Keys(timers)
                      /\ Range(timers'[i].val) \subseteq Range(Lookup(timers, timers'[i].key))
                /\ unpublished_metrics_count'
                      = Len(Unpublished(histograms)) + Len(Unpublished(timers))
      ]_vars

\* clear(only_published=True) has kept one timer without a value and dropped two
\* other instruments
C9_Witness ==
    /\ call.op = "clear"
    /\ call.args = <<TRUE>>
    /\ next_id = 4
    /\ Len(Flatten(timers)) = 1
    /\ unpublished_metrics_count = 1

----------------------------------------------------------------------------
(* Properties of the internal keys *)

\* the entries of a collection as lists, a counter being a list of one
AsLists(op, c, g, h, t) ==
    IF op = "counter"
    THEN [i \in DOMAIN c |-> [key |-> c[i].key, val |-> <<c[i].val>>]]
    ELSE IF op = "gauge" THEN g ELSE IF op = "histogram" THEN h ELSE t

\* the **tags of a factory call
TagsOf(c) ==
    IF c.op = "counter" THEN c.args[3] ELSE IF c.op = "timer" THEN c.args[5] ELSE c.args[4]

\* C11 (as stated): the internal key of name+tags is the same for the same tag set
\* in any insertion order, differs for two different tag sets of the same name and
\* does not depend on the resolution: after a factory call, the instruments filed
\* under the key the call used are exactly the instruments of that kind, of whatever
\* resolution, that carry the tag set of the call, in whatever order.
C11_KeyPerTagSet ==
    [][(call'.op \in {"counter", "gauge", "histogram", "timer"}) =>
          LET after == AsLists(call'.op, counters', gauges', histograms', timers')
          IN  \A i \in DOMAIN after : \A j \in DOMAIN after[i].val :
                 (PlainItems(after[i].val[j].tags) = PlainItems(TagsOf(call')))
                    <=> (\E k \in DOMAIN after[i].val : after[i].val[k].id = The(ret'))
      ]_vars

----------------------------------------------------------------------------
(* Properties of counters *)

\* C15: Counter.increment(n) with n <= 0 raises at the call site and leaves the
\* counter's value unchanged.
C15_IncrementRejectsNonPositive ==
    [][(call'.op = "increment" /\ call'.args[1] <= 0) =>
          /\ raised' # NoError
          /\ counters' = counters
      ]_vars

\* C16: a Counter constructed with initial value v has value v; increment(n) with
\* n > 0 raises the value by exactly n and returns the new value; reset() returns
\* it to v and reset(k) with k >= 0 sets it to k, both returning the new value.
C16_CounterValue ==
    [][/\ (call'.op = "counter" /\ ret' = Some(next_id)) =>
             \E i \in DOMAIN counters' :
                /\ counters'[i].val.id = The(ret')
                /\ Value(counters'[i].val) = Some(call'.args[2])
       /\ (call'.op = "increment" /\ call'.args[1] > 0) =>
             \E i \in DOMAIN counters :
                /\ counters' = [counters EXCEPT ![i].val.value = @ + call'.args[1]]
                /\ ret' = Some(The(Value(counters[i].val)) + call'.args[1])
                /\ raised' = NoError
       /\ (call'.op = "reset" /\ call'.args[1] = None) =>
             \E i \in DOMAIN counters :
                /\ counters' = [counters EXCEPT ![i].val.value = counters[i].val.initial_value]
                /\ ret' = Some(counters[i].val.initial_value)
                /\ raised' = NoError
       /\ (call'.op = "reset" /\ call'.args[1] # None /\ The(call'.args[1]) >= 0) =>
             \E i \in DOMAIN counters :
                /\ counters' = [counters EXCEPT ![i].val.value = The(call'.args[1])]
                /\ ret' = call'.args[1]
                /\ raised' = NoError
      ]_vars

\* a counter constructed with 1 and then raised by 2 holds and returns 3
C16_Witness ==
    /\ call = [op |-> "increment", args |-> <<2>>]
    /\ ret = Some(3)
    /\ \E i \in DOMAIN counters :
          counters[i].val.initial_value = 1 /\ Value(counters[i].val) = Some(3)

\* C27: Counter.record_over_function increments the counter by exactly 1 before it
\* invokes the callable and returns the callable's result unaltered; because the
\* increment precedes the call, it persists when the callable raises.
\* (The call is followed as two steps: up to the invocation of the callable, which
\* then runs, and the return; `scopes` holds what the callable produced.)
C27_RecordOverFunction ==
    [][/\ (call'.op = "record_over_function") =>
             \E i \in DOMAIN counters :
                LET f == call'.args[2]
                    running == Last(scopes')
                IN  /\ counters[i].val.id = call'.args[1]
                    /\ counters' = [counters EXCEPT ![i].val.value = @ + 1]
                    /\ f = "seven" => (running.result = Some(7) /\ running.error = NoError)
                    /\ f = "read_counter" =>
                          (running.result = Some(counters[i].val.value + 1)
                           /\ running.error = NoError)
                    /\ f = "raises" => running.error = "RuntimeError"
       /\ (call'.op = "return") =>
             /\ ret' = Last(scopes).result
             /\ raised' = Last(scopes).error
             /\ UNCHANGED counters
      ]_vars

\* the callable raised, the exception is out and the counter holds the increment
C27_Witness ==
    /\ call.op = "return"
    /\ raised = "RuntimeError"
    /\ \E i \in DOMAIN counters :
          /\ counters[i].val.id = call.args[1]
          /\ counters[i].val.value = counters[i].val.initial_value + 1

----------------------------------------------------------------------------
(* Properties of timers *)

\* C17: stopping a running timer d seconds after its start yields the value
\* round((d1 + ... + dk + d) * resolution_factor), d1..dk being the durations of
\* its earlier start/stop pairs, for every d including d = 0.
C17_StopYieldsElapsed ==
    [][(call'.op = "stop") =>
          \A i \in DOMAIN timers : \A j \in DOMAIN timers[i].val :
             LET m == timers[i].val[j]
             IN  (m.start_time # None /\ timers'[i].val[j].start_time = None) =>
                    Value(timers'[i].val[j])
                       = Some((m.running_value + (now - The(m.start_time)))
                                 * ResolutionFactor(m.resolution))
      ]_vars

\* a timer holds accumulated running time that counts in its value
Accumulated(m) == m.running_value > 0 /\ m.start_time = None

\* C18: the resolution multiplier is applied only to accumulated running time: a
\* timer constructed with a non-zero initial value, or given a non-zero value
\* through set() while it holds no accumulated running time, reports exactly that
\* value, for every resolution; and whatever a timer without accumulated running
\* time reports is its initial or set value, never a multiple of it.
C18_SetValueNotMultiplied ==
    [][/\ (call'.op = "timer" /\ ret' = Some(next_id) /\ call'.args[4] # 0) =>
             \E i \in DOMAIN timers' :
                /\ Last(timers'[i].val).id = The(ret')
                /\ Value(Last(timers'[i].val)) = Some(call'.args[4])
       /\ (call'.op = "set" /\ call'.args[1] \notin {None, Some(0)}) =>
             \A i \in DOMAIN timers : \A j \in DOMAIN timers[i].val :
                (timers'[i].val[j] # timers[i].val[j] /\ ~Accumulated(timers[i].val[j]))
                   => Value(timers'[i].val[j]) = call'.args[1]
       /\ \A m \in Range(Flatten(timers')) :
             (Value(m) # None /\ ~Accumulated(m))
                => Value(m) \in {Some(m.initial_value), Some(m.value)}
      ]_vars

\* a microsecond timer constructed with 3 and then set to 2 reports 2
C18_Witness ==
    /\ call = [op |-> "set", args |-> <<Some(2)>>]
    /\ \E m \in Range(Flatten(timers)) :
          /\ m.resolution = "us"
          /\ m.initial_value = 3
          /\ m.value = 2
          /\ Value(m) = Some(2)

\* C19: Timer.stop() on a timer that is not running raises nothing and leaves its
\* accumulated time and its reported value unchanged, whenever it is called.
C19_StopWhenStoppedIsNoOp ==
    [][(call'.op = "stop") =>
          /\ raised' = NoError
          /\ \A i \in DOMAIN timers : \A j \in DOMAIN timers[i].val :
                timers[i].val[j].start_time = None =>
                   /\ timers'[i].val[j] = timers[i].val[j]
                   /\ Value(timers'[i].val[j]) = Value(timers[i].val[j])
      ]_vars

\* a stop on a stopped timer: the key's second timer exists, so the first was
\* stopped with a value before it was made, and the second still runs, so the
\* stop that was just called went to the first
C19_Witness ==
    /\ call.op = "stop"
    /\ \E i \in DOMAIN timers :
          /\ Len(timers[i].val) = 2
          /\ timers[i].val[1].start_time = None
          /\ timers[i].val[1].running_value = 1
          /\ Value(timers[i].val[1]) = Some(1000)
          /\ timers[i].val[2].start_time # None

\* C20: Timer.record_over_function and the `with` block start the timer on entry
\* and stop it on every exit path: on entry the timer is started at the current
\* time; on exit, whether the callable or block returned or raised, the timer is
\* stopped, the time since the entry is added to its accumulated time (when the
\* block itself has not stopped or restarted the timer), no other timer is touched,
\* and an exception raised inside propagates as it is.
C20_StoppedOnEveryExit ==
    [][/\ (call'.op \in {"__enter__", "record_over_function"}) =>
             /\ Last(scopes').through \in {"with", "record_over_function"}
             /\ \E m \in Range(Flatten(timers')) :
                   m.id = call'.args[1] /\ m.start_time = Some(now)
       /\ (call'.op = "__exit__") =>
             /\ raised' = Last(scopes).error
             /\ \A i \in DOMAIN timers : \A j \in DOMAIN timers[i].val :
                   IF timers[i].val[j].id = Last(scopes).id
                   THEN /\ timers'[i].val[j].start_time = None
                        /\ timers[i].val[j].start_time = Some(Last(scopes).entered)
                              => timers'[i].val[j].running_value
                                    = timers[i].val[j].running_value
                                         + (now - Last(scopes).entered)
                   ELSE timers'[i].val[j] = timers[i].val[j]
      ]_vars

\* a callable that takes one second and raises: the exception is out and the timer
\* is stopped with that second in its value
C20_Witness ==
    /\ call = [op |-> "__exit__", args |-> <<1, "record_over_function">>]
    /\ raised = "RuntimeError"
    /\ \E m \in Range(Flatten(timers)) :
          /\ m.id = 1
          /\ m.start_time = None
          /\ m.running_value = 1
          /\ Value(m) = Some(1000)

\* C14: publish_metrics calls the configured publishers in the declared order, each
\* exactly once, with the whole batch, the configured error-logger name and the
\* configured meta-metrics flag; when a publisher raises, the exception reaches the
\* caller and no publisher declared after it is called.
C14_PublishMetrics ==
    [][call'.op = "publish_metrics" =>
          LET metrics == call'.args[1]
              outcomes == call'.args[2]
              publishers == configuration.publishers
              Before(k) == {j \in 1..(k - 1) : outcomes[j] = "raises"}
              CallsTo(k) == {c \in DOMAIN published' : published'[c].publisher = publishers[k]}
          IN  /\ \A k \in DOMAIN publishers :
                    /\ Cardinality(CallsTo(k)) = IF Before(k) = {} THEN 1 ELSE 0
                    /\ \A c \in CallsTo(k) :
                          /\ published'[c].metrics = metrics
                          /\ published'[c].error_logger = configuration.error_logger_name
                          /\ published'[c].enable_meta_metrics
                                 = configuration.enable_meta_metrics
              /\ \A c, d \in DOMAIN published' :
                    c < d => published'[c].publisher < published'[d].publisher
              /\ (raised' # NoError) <=> (\E k \in DOMAIN publishers : outcomes[k] = "raises")
              /\ UNCHANGED recorder]_vars

\* the first of three publishers returns, the second raises: two calls are made
\* with a batch of two instruments, and the exception reaches the caller
C14_Witness ==
    /\ call.op = "publish_metrics"
    /\ Len(configuration.publishers) = 3
    /\ call.args[2][1] = "ok"
    /\ call.args[2][2] = "raises"
    /\ Len(call.args[1]) = 2
    /\ Len(published) = 2
    /\ published[1].publisher = 1
    /\ published[2].publisher = 2
    /\ raised = "Exception"

\* the datagrams of the last publish call that carry metric lines or were meant to
MetricsDatagrams == SelectSeq(sent, LAMBDA d : d.kind = "metrics")

\* the formatted lines of the instruments of a batch that have a value
MetricLines(metrics) == GetFormattedMetrics(metrics, FALSE, 0).lines

\* C12: for every batch and every configured maximum_packet_size, each payload with
\* metric lines that publish sends is strictly shorter than maximum_packet_size, and
\* when the lines of the batch joined by separators are longer than maximum_packet_size
\* publish issues more than one send.
C12_PayloadsBelowMaximum ==
    [][call'.op = "publish" =>
          /\ \A i \in DOMAIN MetricsDatagrams' :
                MetricsDatagrams'[i].lines # <<>>
                    => PayloadLength(MetricsDatagrams'[i].lines) < maximum_packet_size
          /\ PayloadLength(MetricLines(call'.args[1])) > maximum_packet_size
                => Len(MetricsDatagrams') > 1]_vars

\* C13: a socket error while a chunk is sent never leaves publish; the chunk is
\* attempted once and not again, and every later chunk of the call is still attempted,
\* so that every line of the batch is in some attempted payload.
C13_SocketErrorsAreDropped ==
    [][call'.op = "publish" =>
          \A i \in DOMAIN MetricsDatagrams' :
              MetricsDatagrams'[i].outcome \in SocketErrors
                  => /\ raised' \notin SocketErrors
                     /\ \A j \in DOMAIN MetricsDatagrams' :
                           j # i => MetricsDatagrams'[j].lines # MetricsDatagrams'[i].lines
                     /\ \A l \in Range(MetricLines(call'.args[1])) :
                           \E j \in DOMAIN MetricsDatagrams' :
                               l \in Range(MetricsDatagrams'[j].lines)]_vars

\* C21: Gauge.set, Histogram.set and Counter.reset given a negative value raise a
\* value error and leave every instrument as it was; so after a set or reset call,
\* successful or failed, no gauge and no histogram has a negative value.
C21_NegativeValuesRejected ==
    [][call'.op \in {"set", "reset"} =>
          /\ (call'.args[1] # None /\ The(call'.args[1]) < 0)
                => /\ raised' = "ValueError"
                   /\ UNCHANGED <<counters, gauges, histograms, timers>>
          /\ \A m \in Range(Flatten(gauges')) \cup Range(Flatten(histograms')) :
                The(Value(m)) >= 0]_vars

\* a call that formats one Counter of value 1 with the tags `tags`, meta-metrics off
FormatsCounter(tags) ==
    /\ call.op = "get_formatted_metrics"
    /\ ~call.args[2]
    /\ Len(call.args[1]) = 1
    /\ call.args[1][1].kind = "counter"
    /\ Value(call.args[1][1]) = Some(1)
    /\ call.args[1][1].tags = tags

\* C22 (as stated): a Counter of value 1 is formatted as name:1|c without tags and as
\* name:1|c|#env:qa with the single tag env=qa, by the StatsdPublisher as well as by
\* the DogStatsdPublisher (without global tags).
C22_CounterLineWithTags ==
    [][publisher.global_tags_string = <<>> =>
          /\ FormatsCounter(<<>>)'
                => Len(The(ret')) = 1 /\ LineText(The(ret')[1]) = <<call'.args[1][1].name, ":", 1, "|", "c">>
          /\ FormatsCounter(<< <<"env", Str("qa")>> >>)'
                => /\ Len(The(ret')) = 1
                   /\ LineText(The(ret')[1]) = <<call'.args[1][1].name, ":", 1, "|", "c",
                                            "|#", "env", ":", "qa">>]_vars

\* a tag as the claim renders it: the bare name when it has no value
RenderedTag(item) == IF item[2] = NoValue THEN <<item[1]>> ELSE <<item[1], ":", item[2][2]>>

\* the tags of a line as the claim renders them: comma-separated after a single |#
RECURSIVE CommaSeparated(_)
CommaSeparated(items) ==
    IF items = <<>> THEN <<>>
    ELSE IF Len(items) = 1 THEN RenderedTag(items[1])
    ELSE RenderedTag(items[1]) \o <<",">> \o CommaSeparated(Tail(items))
RenderedTags(items) == IF items = <<>> THEN <<>> ELSE <<"|#">> \o CommaSeparated(items)

\* C23: every line a DogStatsdPublisher formats carries the global tags first, then,
\* on gauge lines only, the extra gauge tags, then the instrument's own tags,
\* comma-separated after a single |#; a tag without a value is its bare name, and a
\* line that is not a gauge's carries no extra gauge tag.
C23_TagOrder ==
    [][(call'.op = "get_formatted_metrics" /\ raised' = NoError) =>
          \A g \in GlobalTags, e \in ExtraGaugeTags :
              publisher \in {DogStatsdPublisher(g, e, d) : d \in BOOLEAN} =>
                  LET valued == SelectSeq(call'.args[1], LAMBDA m : Value(m) # None)
                      meta == Len(The(ret')) - Len(valued)
                  IN  /\ meta \in {0, 1}
                      /\ meta = 1 => The(ret')[1].tags_string = RenderedTags(g)
                      /\ \A i \in DOMAIN valued :
                            The(ret')[meta + i].tags_string =
                                RenderedTags(g \o (IF valued[i].kind = "gauge" THEN e ELSE <<>>)
                                               \o valued[i].tags)]_vars

\* a publisher with two global tags, one without a value, and an extra gauge tag has
\* formatted a gauge with two tags of its own and a counter with one
C23_Witness ==
    /\ call.op = "get_formatted_metrics"
    /\ raised = NoError
    /\ publisher.class = "dogstatsd"
    /\ publisher.global_gauge_tags_string
           = <<"|#", "region", ":", "eu", ",", "flag", ",", "worker", ":", "a">>
    /\ Len(The(ret)) = 2
    /\ The(ret)[1].type = "g"
    /\ Len(The(ret)[1].tags_string) = 16
    /\ The(ret)[2].type = "c"
    /\ The(ret)[2].tags_string = <<"|#", "region", ":", "eu", ",", "flag", ",", "env", ":", "qa">>

\* the instruments of a batch that have a value
Valued(metrics) == SelectSeq(metrics, LAMBDA m : Value(m) # None)

\* C24: get_formatted_metrics formats the instruments that have a value and no other;
\* when no instrument of the batch has a value, or the batch is empty, it returns an
\* empty list even with meta-metrics enabled, and publish attempts no datagram at
\* all, neither of metrics nor of meta-metrics.
C24_NothingToPublish ==
    [][/\ (call'.op = "get_formatted_metrics" /\ raised' = NoError) =>
              LET valued == Valued(call'.args[1])
                  meta == Len(The(ret')) - Len(valued)
              IN  /\ meta = IF call'.args[2] /\ valued # <<>> THEN 1 ELSE 0
                  /\ \A i \in DOMAIN valued :
                        /\ The(ret')[meta + i].name = valued[i].name
                        /\ The(ret')[meta + i].value = The(Value(valued[i]))
       /\ (call'.op = "get_formatted_metrics" /\ Valued(call'.args[1]) = <<>>)
              => raised' = NoError /\ The(ret') = <<>>
       /\ (call'.op = "publish" /\ Valued(call'.args[1]) = <<>>)
              => sent' = <<>> /\ raised' = NoError]_vars

\* publish was given a running timer alone, with meta-metrics enabled, and sent nothing
C24_Witness ==
    /\ call.op = "publish"
    /\ call.args[3]
    /\ Len(call.args[1]) = 1
    /\ call.args[1][1].kind = "timer"
    /\ Value(call.args[1][1]) = None
    /\ sent = <<>>
    /\ raised = NoError

----------------------------------------------------------------------------
(* Properties of configure *)

\* C25: a recorder moves from unconfigured to configured at most once: once it holds
\* a configuration, every later configure(config) call leaves that configuration
\* unchanged and raises nothing, even when the dictionary passed is invalid.
C25_ConfiguredOnce ==
    [][is_configured =>
          /\ configuration' = configuration
          /\ call'.op = "configure" => raised' = NoError]_vars

\* a configured recorder was given an invalid dictionary
C25_Witness ==
    /\ call.op = "configure"
    /\ call.args[1] # NoConfig
    /\ ~ValidConfig(call.args[1])
    /\ is_configured
    /\ raised = NoError

----------------------------------------------------------------------------
(* Properties of the publishers' constructors *)

\* C26: a publisher's effective maximum_packet_size is the configured value when that
\* value is at most the publisher's ceiling and the ceiling otherwise (65000 for
\* statsd, 8000 for dogstatsd, which are also the defaults): it can be configured
\* downward only and never exceeds the ceiling.
C26_PacketSizeCapped ==
    [][call'.op = "publisher.__init__" =>
          LET ceiling == IF call'.args[1] = "dogstatsd" THEN 8000 ELSE 65000
              configured == call'.args[2]
          IN  /\ maximum_packet_size' <= ceiling
              /\ maximum_packet_size' =
                    IF configured = None THEN ceiling
                    ELSE IF The(configured) <= ceiling THEN The(configured) ELSE ceiling]_vars

\* a DogStatsdPublisher was given a size between the two ceilings
C26_Witness ==
    /\ call.op = "publisher.__init__"
    /\ call.args[1] = "dogstatsd"
    /\ call.args[2] = Some(9000)
    /\ maximum_packet_size = 8000

----------------------------------------------------------------------------
(* Properties of the count and of what publish_all removes *)

\* C28: after any sequence of counter, gauge, histogram, timer, clear and publish_all
\* calls on a recorder, unpublished_metrics_count equals the number of instruments
\* the recorder holds: the counters plus every entry of every list of gauges,
\* histograms and timers.
C28_CountIsHeld ==
    unpublished_metrics_count =
        Len(counters) + Len(Flatten(gauges)) + Len(Flatten(histograms)) + Len(Flatten(timers))

\* publish_all has left two running timers under one key
C28_Witness ==
    /\ call.op = "publish_all"
    /\ Len(timers) = 1
    /\ Len(Flatten(timers)) = 2
    /\ unpublished_metrics_count = 2

\* C29: on a configured recorder driven by a single flow of control, a publish_all
\* that completes removes from the recorder exactly the instruments it passed to the
\* dispatcher and retains exactly the instruments it did not pass: no instrument is
\* dropped without having been dispatched and none is dispatched and kept.
C29_RemovesWhatItDispatched ==
    [][(publish_all_calls' = 1 /\ is_configured /\ raised' = NoError) =>
          LET passed == Range(dispatched'[1])
          IN  /\ Held' = Held \ passed
              /\ Held \ Held' = Held \cap passed
              /\ Held' \cap passed = {}]_vars

\* publish_all dispatched a counter and a timer with a value and kept a running timer
C29_Witness ==
    /\ call.op = "publish_all"
    /\ is_configured
    /\ Len(dispatched) = 1
    /\ \E m \in Range(dispatched[1]) : m.kind = "counter"
    /\ \E m \in Range(dispatched[1]) : m.kind = "timer" /\ m.id # 0
    /\ Len(Flatten(timers)) = 1
    /\ \A m \in Range(Flatten(timers)) : m \notin Range(dispatched[1])

\* C30: if a publisher raises during publish_all, the exception propagates to the
\* caller of publish_all and the recorder is left as it was before the call: no
\* instrument is cleared, unpublished_metrics_count is unchanged and the last-publish
\* timestamp is not advanced.
C30_RaisingPublisherLeavesRecorder ==
    [][(/\ call'.op = "publish_all"
        /\ is_configured
        /\ \E k \in DOMAIN call'.args[1] : call'.args[1][k] = "raises") =>
          /\ raised' = "Exception"
          /\ counters' = counters
          /\ gauges' = gauges
          /\ histograms' = histograms
          /\ timers' = timers
          /\ unpublished_metrics_count' = unpublished_metrics_count
          /\ last_publish_timestamp' = last_publish_timestamp]_vars

\* the second publisher raised after time had passed: the recorder still holds its
\* instruments and has never stamped a publish
C30_Witness ==
    /\ call.op = "publish_all"
    /\ raised = "Exception"
    /\ Len(published) = 2
    /\ counters # <<>>
    /\ timers # <<>>
    /\ unpublished_metrics_count >= 2
    /\ now > StartTime
    /\ last_publish_timestamp = 0

----------------------------------------------------------------------------
(* Properties of timers across publish_all *)

\* C31 (as stated): a timer that is still running, its value None, when publish_all
\* runs on a configured recorder is not dispatched in that publish and stays in the
\* recorder; a timer that was stopped after a positive elapsed time is in the batch
\* of the next publish_all, and in no batch after that: two publish_all calls with
\* nothing between them hand no timer of the recorder to the publishers twice.
C31_RunningTimerPublishedOnce ==
    [][/\ (publish_all_calls' = 1 /\ is_configured) =>
              \A m \in Range(Flatten(timers)) :
                 /\ (m.start_time # None /\ Value(m) = None) =>
                        /\ m \notin Range(dispatched'[1])
                        /\ m \in Range(Flatten(timers'))
                 /\ (m.start_time = None /\ m.running_value > 0) =>
                        m \in Range(dispatched'[1])
       /\ (call.op = "publish_all" /\ call'.op = "publish_all" /\ is_configured) =>
              \A m \in Range(dispatched'[1]) :
                 (m.kind = "timer" /\ m.id # 0)
                    => m.id \notin {x.id : x \in Range(dispatched[1])}]_vars

----------------------------------------------------------------------------
(* Properties of the first publish *)

\* C32 (as stated): on a freshly constructed recorder, whose last-publish timestamp
\* is 0, the first publish_if_full_or_old call and the first throttled_publish_all
\* call publish however few metrics are held; after a publish by one of these calls,
\* a further call at the same instant publishes again only when the count exceeds
\* max_metrics.
C32_FirstCallPublishes ==
    [][(call'.op \in {"publish_if_full_or_old", "throttled_publish_all"}) =>
          /\ (call.op = "__init__" \/ last_publish_timestamp = 0) => publish_all_calls' = 1
          /\ (/\ call.op \in {"publish_if_full_or_old", "throttled_publish_all"}
              /\ publish_all_calls = 1
              /\ publish_all_calls' = 1)
                => /\ call'.op = "publish_if_full_or_old"
                   /\ unpublished_metrics_count > call'.args[1]]_vars

----------------------------------------------------------------------------
(* Properties of the chunks and of the meta-metrics datagrams *)

RECURSIVE JoinedLines(_)
\* the lines of a list of payloads, in send order
JoinedLines(datagrams) ==
    IF datagrams = <<>> THEN <<>>
    ELSE Head(datagrams).lines \o JoinedLines(Tail(datagrams))

\* C33: chunking neither loses, duplicates nor reorders lines: for every batch and
\* every maximum_packet_size, the lines of the metric payloads sent by one publish
\* call, taken in send order, are exactly the formatted lines, each once and in the
\* original order.
C33_ChunksKeepLines ==
    [][(call'.op = "publish" /\ sent' # <<>>) =>
          JoinedLines(MetricsDatagrams')
              = GetFormattedMetrics(call'.args[1], call'.args[3], 1).lines]_vars

\* C34: every metrics datagram that publish sends carries at least one formatted line:
\* publish never sends an empty payload or a payload reported as holding 0 metrics,
\* for any batch and any configured maximum_packet_size.
C34_NoEmptyPayload ==
    [][call'.op = "publish" =>
          \A i \in DOMAIN MetricsDatagrams' :
              /\ MetricsDatagrams'[i].lines # <<>>
              /\ MetricsDatagrams'[i].num_metrics >= 1]_vars

RECURSIVE Open(_)
\* the number of sockets made and not yet closed after a list of socket calls
Open(calls) ==
    IF calls = <<>> THEN 0
    ELSE Open(SubSeq(calls, 1, Len(calls) - 1))
         + (IF Last(calls) = "socket" THEN 1 ELSE 0)
         - (IF Last(calls) = "close" THEN 1 ELSE 0)

\* the socket calls of all the sends of the last publish call, in order
RECURSIVE AllSocketCalls(_)
AllSocketCalls(datagrams) ==
    IF datagrams = <<>> THEN <<>>
    ELSE Head(datagrams).socket_calls \o AllSocketCalls(Tail(datagrams))

\* C35: every send opens its own UDP socket and that socket is closed before the
\* send returns, when it succeeds and when creating the socket, connecting or
\* sending raises; no socket opened by publish is open after publish returns,
\* whether it returns or raises, and no socket is used by two sends.
C35_SocketsClosed ==
    [][call'.op = "publish" =>
          /\ \A i \in DOMAIN sent' :
                LET calls == sent'[i].socket_calls
                IN  /\ Open(calls) = 0
                    /\ Head(calls) \in {"socket", "socket raises"}
                    /\ \A j \in DOMAIN calls :
                          j > 1 => /\ calls[j] # "socket"
                                   /\ Open(SubSeq(calls, 1, j - 1)) = 1
          /\ Open(AllSocketCalls(sent')) = 0]_vars

\* connect raised for the first chunk, and the sends after it were made with sockets
\* of their own
C35_Witness ==
    /\ call.op = "publish"
    /\ Len(sent) >= 3
    /\ sent[1].outcome = "gaierror"
    /\ sent[1].socket_calls = <<"socket", "settimeout", "connect raises", "close">>
    /\ sent[2].kind = "meta"
    /\ sent[3].socket_calls = <<"socket", "settimeout", "connect", "sendall", "close">>

\* C36: with meta-metrics enabled, each chunk's send attempt is followed by exactly
\* one meta-metrics datagram sent before the next chunk is attempted, whether or not
\* the chunk's send failed; that datagram reports a send counter of 1 and a
\* num_metrics value equal to the number of lines in the chunk.  With meta-metrics
\* disabled no such datagram is ever sent.
C36_MetaDatagramPerChunk ==
    [][call'.op = "publish" =>
          /\ call'.args[3] =>
                \A i \in DOMAIN sent' :
                    IF sent'[i].kind = "metrics"
                    THEN /\ i + 1 \in DOMAIN sent'
                         /\ sent'[i + 1].kind = "meta"
                         /\ sent'[i + 1].lines[1].name
                               = <<"pymetrics", "meta", "publish", "statsd", "send">>
                         /\ sent'[i + 1].lines[1].value = 1
                         /\ sent'[i + 1].lines[2].name
                               = <<"pymetrics", "meta", "publish", "statsd", "send", "num_metrics">>
                         /\ sent'[i + 1].lines[2].value = Len(sent'[i].lines)
                    ELSE i > 1 /\ sent'[i - 1].kind = "metrics"
          /\ ~call'.args[3] => \A i \in DOMAIN sent' : sent'[i].kind = "metrics"]_vars

\* whether a meta-metrics datagram carries the line pymetrics.meta.publish.statsd.send.<flag>
Carries(d, flag) ==
    \E l \in Range(d.lines) :
        l.name = <<"pymetrics", "meta", "publish", "statsd", "send">> \o flag /\ l.value = 1

\* C37: the meta-metrics datagram of a chunk carries the flag send.error.max_packet
\* exactly when the chunk's send failed with a message-too-large socket error, the
\* flag send.error.unknown exactly when it failed with any other error, and neither
\* flag when the send succeeded; it never carries both.
C37_ErrorFlags ==
    [][call'.op = "publish" =>
          \A i \in DOMAIN sent' :
              (sent'[i].kind = "meta") =>
                  LET outcome == sent'[i - 1].outcome
                      max_packet == Carries(sent'[i], <<"error", "max_packet">>)
                      unknown == Carries(sent'[i], <<"error", "unknown">>)
                  IN  /\ max_packet <=> outcome = "EMSGSIZE"
                      /\ unknown <=> outcome \notin {"ok", "EMSGSIZE"}
                      /\ ~(max_packet /\ unknown)]_vars

\* socket() raised with EMFILE, a socket error that is not EMSGSIZE: the meta-metrics
\* datagram carries send.error.unknown
C37_Witness ==
    /\ call.op = "publish"
    /\ Len(sent) >= 2
    /\ sent[1].outcome = "EMFILE"
    /\ sent[2].kind = "meta"
    /\ Carries(sent[2], <<"error", "unknown">>)
    /\ ~Carries(sent[2], <<"error", "max_packet">>)

\* C38: the meta-metrics datagram of a chunk carries exceeds_max_packet,
\* exceeds_max_gig_e and exceeds_max_fast_e exactly when the chunk's payload is at
\* least 65507, 8972 and 1490 bytes long respectively, so that exceeds_max_packet
\* implies exceeds_max_gig_e, which implies exceeds_max_fast_e.
C38_SizeFlags ==
    [][call'.op = "publish" =>
          \A i \in DOMAIN sent' :
              (sent'[i].kind = "meta") =>
                  LET num_bytes == PayloadLength(sent'[i - 1].lines)
                      max_packet == Carries(sent'[i], <<"exceeds_max_packet">>)
                      max_gig_e == Carries(sent'[i], <<"exceeds_max_gig_e">>)
                      max_fast_e == Carries(sent'[i], <<"exceeds_max_fast_e">>)
                  IN  /\ max_packet <=> num_bytes >= 65507
                      /\ max_gig_e <=> num_bytes >= 8972
                      /\ max_fast_e <=> num_bytes >= 1490
                      /\ max_packet => max_gig_e
                      /\ max_gig_e => max_fast_e]_vars

\* payloads of exactly 65507, 8972 and 1490 bytes were sent in one call, each followed
\* by a meta-metrics datagram that carries its flag
C38_Witness ==
    /\ call.op = "publish"
    /\ \E i \in DOMAIN sent :
          /\ sent[i].kind = "meta"
          /\ PayloadLength(sent[i - 1].lines) = 65507
          /\ Carries(sent[i], <<"exceeds_max_packet">>)
    /\ \E i \in DOMAIN sent :
          /\ sent[i].kind = "meta"
          /\ PayloadLength(sent[i - 1].lines) = 1490
          /\ Carries(sent[i], <<"exceeds_max_fast_e">>)
          /\ ~Carries(sent[i], <<"exceeds_max_gig_e">>)

----------------------------------------------------------------------------
(* Properties of restarted timers *)

\* C39: start() on a timer that is already running (a timer runs from construction)
\* restarts the measurement: the start time becomes the time of the call and the time
\* elapsed since the earlier start is not added to the accumulated time; nothing but
\* start() and stop() moves the start time of a timer; and the next stop() adds to the
\* accumulated time only the time elapsed since the most recent start.
C39_StartRestarts ==
    [][/\ (call'.op = "start") =>
             \E i \in DOMAIN timers : \E j \in DOMAIN timers[i].val :
                timers' = [timers EXCEPT ![i].val[j] =
                              [@ EXCEPT !.start_time = Some(now), !.running_value = @]]
       /\ (call'.op = "stop") =>
             \A i \in DOMAIN timers : \A j \in DOMAIN timers[i].val :
                LET m == timers[i].val[j]
                IN  (timers'[i].val[j] # m) =>
                       /\ m.start_time # None
                       /\ timers'[i].val[j].running_value
                             = m.running_value + (now - The(m.start_time))
       /\ (call'.op \notin {"start", "stop"}) =>
             \A i \in DOMAIN timers : \A j \in DOMAIN timers[i].val :
                /\ i \in DOMAIN timers'
                /\ j \in DOMAIN timers'[i].val
                /\ timers'[i].val[j].start_time = timers[i].val[j].start_time
                /\ timers'[i].val[j].running_value = timers[i].val[j].running_value
      ]_vars

\* start() was called after the clock moved on a timer made before it moved (the
\* timer made after it has run for the whole tick): the timer runs from the time of
\* the call and holds no accumulated time
C39_Witness ==
    /\ call.op = "start"
    /\ now = StartTime + 1
    /\ \E i \in DOMAIN timers :
          /\ Len(timers[i].val) = 2
          /\ timers[i].val[1].start_time = Some(now)
          /\ timers[i].val[1].running_value = 0
          /\ timers[i].val[2].start_time = None
          /\ timers[i].val[2].running_value = 1

----------------------------------------------------------------------------
(* Properties of Timer.value *)

\* the timer is not running
Stopped(m) == m.start_time = None
\* what a publisher formats of the timer alone
FormattedAlone(m) == StatsdGetFormattedMetrics(<<m>>, FALSE, 1).lines
\* the three cases of Timer.value, in order
ThreeCases(m) ==
    IF Stopped(m) /\ m.running_value > 0
    THEN Value(m) = Some(m.running_value * ResolutionFactor(m.resolution))
    ELSE IF m.value # 0
         THEN Value(m) = Some(m.value)
         ELSE Value(m) = None /\ FormattedAlone(m) = <<>>

\* C40 as stated: a timer's value is decided by three cases in this order (stopped
\* with positive accumulated time: that time times the resolution; else a non-zero
\* set or initial value: that number; else None), and in particular every timer
\* that is running, was stopped after zero elapsed time, or was set to 0 reports
\* None and is not published.
C40_ThreeCasesAsStated ==
    /\ \A m \in Range(Flatten(timers)) :
          /\ ThreeCases(m)
          /\ (~Stopped(m) \/ m.running_value = 0) =>
                Value(m) = None /\ FormattedAlone(m) = <<>>
    /\ (call = [op |-> "set", args |-> <<Some(0)>>] /\ raised = NoError) =>
          \E m \in Range(Flatten(timers)) :
              m.value = 0 /\ Value(m) = None /\ FormattedAlone(m) = <<>>

\* C40, amended: a timer's value is decided by the three cases in this order; a timer
\* that is running or was stopped after zero elapsed time reports None and is not
\* published exactly when its set or initial value is zero, and reports that value
\* otherwise; a timer set to 0 reports None and is not published unless it is
\* stopped with positive accumulated time, which it then reports.
C40_ThreeCases ==
    /\ \A m \in Range(Flatten(timers)) :
          /\ ThreeCases(m)
          /\ (~Stopped(m) \/ m.running_value = 0) =>
                /\ (m.value = 0) => Value(m) = None /\ FormattedAlone(m) = <<>>
                /\ (m.value # 0) => Value(m) = Some(m.value) /\ Len(FormattedAlone(m)) = 1
          /\ (m.value = 0 /\ Stopped(m) /\ m.running_value > 0) =>
                /\ Value(m) = Some(m.running_value * ResolutionFactor(m.resolution))
                /\ Len(FormattedAlone(m)) = 1
    /\ (call = [op |-> "set", args |-> <<Some(0)>>] /\ raised = NoError) =>
          \E m \in Range(Flatten(timers)) : m.value = 0

\* a stopped millisecond timer that ran for one second and was given the value 2
\* reports 1000, and one that is running with the initial value 3 reports 3
C40_Witness ==
    /\ \E m \in Range(Flatten(timers)) :
          /\ Stopped(m)
          /\ m.running_value = 1
          /\ m.resolution = "ms"
          /\ m.value = 2
          /\ Value(m) = Some(1000)
    /\ \E m \in Range(Flatten(timers)) :
          /\ ~Stopped(m)
          /\ m.value = 3
          /\ Value(m) = Some(3)

====
